---- MODULE Spec2Model ----
(***************************************************************************)
(* Model of the request/response layer of Photo-Edit-N                     *)
(* (src/services/geminiService.ts): the asset encoder fileToPart, the      *)
(* response classifier handleApiResponse and the six generation            *)
(* operations built on them.                                               *)
(*                                                                         *)
(* Strings are sequences of lexemes.  The characters the code parses on    *)
(* (":", ";", ",", white space, base64 digits) are lexemes of their own; a *)
(* run of text the code never looks into (a literal fragment of a message  *)
(* template, an enum name, "image/png") is one lexeme.  An optional value  *)
(* (undefined | v) is the sequence <<>> or <<v>>.                          *)
(***************************************************************************)
EXTENDS Integers, Sequences, FiniteSets, TLC

\* ------------------------------------------------------------------ bounds
MaxBytes == 3        \* longest asset content, in bytes
MaxParts == 2        \* most content parts in the first candidate
MaxCandidates == 2   \* most candidates in a response
MaxImages == 2       \* most entries of generatedImages

\* ------------------------------------------------------- optional values
None == <<>>
Some(v) == <<v>>

\* ------------------------------------------------------ string utilities
\* s.indexOf(c, from), 1-based; 0 when absent
RECURSIVE IndexOf(_, _, _)
IndexOf(s, c, from) ==
    IF from > Len(s) THEN 0
    ELSE IF s[from] = c THEN from
    ELSE IndexOf(s, c, from + 1)

\* s.split(sep) for a one-character separator: always at least one segment
RECURSIVE split(_, _)
split(s, sep) ==
    LET i == IndexOf(s, sep, 1)
    IN  IF i = 0 THEN <<s>>
        ELSE <<SubSeq(s, 1, i - 1)>> \o split(SubSeq(s, i + 1, Len(s)), sep)

\* s.includes(sub)
Contains(s, sub) ==
    \E i \in 1..(Len(s) - Len(sub) + 1) : SubSeq(s, i, i + Len(sub) - 1) = sub

IsSpace(c) == c \in {" ", "\n"}

\* s.trim()
RECURSIVE TrimStart(_)
TrimStart(s) ==
    IF s # <<>> /\ IsSpace(Head(s)) THEN TrimStart(Tail(s)) ELSE s

RECURSIVE TrimEnd(_)
TrimEnd(s) ==
    IF s # <<>> /\ IsSpace(s[Len(s)]) THEN TrimEnd(SubSeq(s, 1, Len(s) - 1)) ELSE s

trim(s) == TrimEnd(TrimStart(s))

\* ------------------------------------------------------------------ base64
B64Chars ==
    << "A","B","C","D","E","F","G","H","I","J","K","L","M","N","O","P",
       "Q","R","S","T","U","V","W","X","Y","Z","a","b","c","d","e","f",
       "g","h","i","j","k","l","m","n","o","p","q","r","s","t","u","v",
       "w","x","y","z","0","1","2","3","4","5","6","7","8","9","+","/" >>

B64Digit(n) == B64Chars[n + 1]

B64Value(c) == (CHOOSE i \in 1..64 : B64Chars[i] = c) - 1

\* the base64 text readAsDataURL produces for a byte sequence
RECURSIVE Base64Encode(_)
Base64Encode(bytes) ==
    IF Len(bytes) = 0 THEN <<>>
    ELSE IF Len(bytes) = 1 THEN
        LET n == bytes[1] * 16
        IN  << B64Digit(n \div 64), B64Digit(n % 64), "=", "=" >>
    ELSE IF Len(bytes) = 2 THEN
        LET n == (bytes[1] * 256 + bytes[2]) * 4
        IN  << B64Digit(n \div 4096), B64Digit((n \div 64) % 64),
               B64Digit(n % 64), "=" >>
    ELSE
        LET n == bytes[1] * 65536 + bytes[2] * 256 + bytes[3]
        IN  << B64Digit(n \div 262144), B64Digit((n \div 4096) % 64),
               B64Digit((n \div 64) % 64), B64Digit(n % 64) >>
            \o Base64Encode(SubSeq(bytes, 4, Len(bytes)))

\* the bytes a base64 text stands for (what the service, or atob, decodes)
RECURSIVE Base64Decode(_)
Base64Decode(text) ==
    IF Len(text) < 4 THEN <<>>
    ELSE
        LET q == SubSeq(text, 1, 4)
            rest == SubSeq(text, 5, Len(text))
        IN  IF q[3] = "=" THEN
                LET n == B64Value(q[1]) * 64 + B64Value(q[2])
                IN  << n \div 16 >>
            ELSE IF q[4] = "=" THEN
                LET n == (B64Value(q[1]) * 64 + B64Value(q[2])) * 64 + B64Value(q[3])
                IN  << n \div 1024, (n \div 4) % 256 >>
            ELSE
                LET n == ((B64Value(q[1]) * 64 + B64Value(q[2])) * 64
                            + B64Value(q[3])) * 64 + B64Value(q[4])
                IN  << n \div 65536, (n \div 256) % 256, n % 256 >>
                    \o Base64Decode(rest)

\* ------------------------------------------------------------------ assets
ByteValues == {0, 77, 255}

RECURSIVE SeqsUpTo(_, _)
SeqsUpTo(S, n) ==
    IF n = 0 THEN {<<>>}
    ELSE LET shorter == SeqsUpTo(S, n - 1)
         IN  shorter \cup {Append(s, x) : s \in {t \in shorter : Len(t) = n - 1}, x \in S}

\* File.type values: empty (unknown extension), a plain type, a type with a
\* parameter, and types that contain the payload delimiter
MediaTypes ==
    { <<>>,
      <<"image/png">>,
      <<"image/svg+xml", ";", "charset=utf-8">>,
      <<"image/x", ",", "y">>,
      <<"image/png", ";", "a=b", ",", "c">> }

Files == [type : MediaTypes, bytes : SeqsUpTo(ByteValues, MaxBytes)]

\* ------------------------------------------------------------- fileToPart
\* The data URLs reader.readAsDataURL(file) can resolve with.  The File API
\* gives "data:" + type + ";base64," + payload; for a file without a type
\* engines also give application/octet-stream, and for an empty file
\* Chromium gives the bare "data:".
readAsDataURL(file) ==
    { <<"data", ":">> \o file.type \o <<";", "base64", ",">> \o Base64Encode(file.bytes) }
    \cup (IF file.type = <<>>
          THEN { <<"data", ":", "application/octet-stream", ";", "base64", ",">>
                    \o Base64Encode(file.bytes) }
          ELSE {})
    \cup (IF file.bytes = <<>> THEN { <<"data", ":">> } ELSE {})

\* variant: the pattern without its leading ":" (/(.*?);/)
mimeMatch_NoColon(s) ==
    LET j == IndexOf(s, ";", 1)
    IN  IF j = 0 THEN None ELSE Some(SubSeq(s, 1, j - 1))

\* arr[0].match(/:(.*?);/): the lazy group is the text between the first ":"
\* and the first ";" after it; None when there is no match
mimeMatch(s) ==
    LET i == IndexOf(s, ":", 1)
    IN  IF i = 0 THEN None
        ELSE LET j == IndexOf(s, ";", i + 1)
             IN  IF j = 0 THEN None ELSE Some(SubSeq(s, i + 1, j - 1))

InvalidDataUrl == <<"Invalid data URL">>
NoMimeType == <<"Could not parse MIME type from data URL">>
ReaderError == <<"[FileReader error event]">>

Returned(v) == [returned |-> Some(v), thrown |-> None]
Thrown(e) == [returned |-> None, thrown |-> Some(e)]

\* variant: the test of the captured group (!mimeMatch[1]) left out
fileToPart_NoGroupTest(dataUrl) ==
    LET arr == split(dataUrl, ",")
    IN  IF Len(arr) < 2 THEN Thrown(InvalidDataUrl)
        ELSE LET m == mimeMatch(arr[1])
             IN  IF m = None THEN Thrown(NoMimeType)
                 ELSE Returned([mimeType |-> m[1], data |-> arr[2]])

\* fileToPart once the reader has resolved with dataUrl
fileToPart(dataUrl) ==
    LET arr == split(dataUrl, ",")
    IN  IF Len(arr) < 2 THEN Thrown(InvalidDataUrl)
        ELSE LET m == mimeMatch(arr[1])
             IN  IF m = None \/ m[1] = <<>> THEN Thrown(NoMimeType)
                 ELSE Returned([mimeType |-> m[1], data |-> arr[2]])

\* ------------------------------------------------------ service responses
\* BlockedReason and FinishReason are enums of the service: non-empty names
BlockReasons == { <<"SAFETY">>, <<"PROHIBITED_CONTENT">> }
FinishReasons == { <<"STOP">>, <<"SAFETY">>, <<"MAX_TOKENS">> }

BlockMessage == <<"The prompt was flagged.">>

PromptFeedbacks ==
    { None, Some([blockReason |-> None, blockReasonMessage |-> None]) }
    \cup { Some([blockReason |-> Some(b), blockReasonMessage |-> m]) :
              b \in BlockReasons, m \in {None, Some(BlockMessage)} }

PngData == [mimeType |-> <<"image/png">>, data |-> <<"i", "V", "B", "O">>]
JpegData == [mimeType |-> <<"image/jpeg">>, data |-> <<"/", "9", "j", "/">>]

TextPart == [inlineData |-> None, text |-> Some(<<"n", "o">>)]
InlinePart(d) == [inlineData |-> Some(d), text |-> None]

Parts == { TextPart, InlinePart(PngData), InlinePart(JpegData) }

Contents ==
    { None, Some([parts |-> None]) }
    \cup { Some([parts |-> Some(ps)]) : ps \in SeqsUpTo(Parts, MaxParts) }

FirstCandidates == [content : Contents, finishReason : {None} \cup {Some(f) : f \in FinishReasons}]

\* the code reads candidates[0] only; the candidates after it come from a
\* few shapes that differ from the first in image and finish reason
LaterCandidates ==
    { [content |-> None, finishReason |-> Some(<<"STOP">>)],
      [content |-> Some([parts |-> Some(<<InlinePart(JpegData)>>)]), finishReason |-> Some(<<"STOP">>)],
      [content |-> Some([parts |-> Some(<<TextPart>>)]), finishReason |-> Some(<<"SAFETY">>)] }

CandidateLists ==
    { None, Some(<<>>) }
    \cup { Some(<<c>> \o rest) :
              c \in FirstCandidates, rest \in SeqsUpTo(LaterCandidates, MaxCandidates - 1) }

\* response.text: absent, empty, white space only, text, text in white space
Texts == { None, Some(<<>>), Some(<<" ">>), Some(<<"n", "o">>), Some(<<" ", "n", "o", "\n">>) }

Responses == [promptFeedback : PromptFeedbacks, candidates : CandidateLists, text : Texts]

Contexts == { "edit", "filter", "adjustment", "ad", "mockup" }

\* ------------------------------------------------------ handleApiResponse
\* JavaScript truthiness of an optional string
Truthy(opt) == opt # None /\ opt[1] # <<>>

DataUrl(mimeType, data) == <<"data", ":">> \o mimeType \o <<";", "base64", ",">> \o data

BlockedPrefix == "Request was blocked. Reason: "
StoppedPrefix == "Image generation for "
StoppedInfix == " stopped unexpectedly. Reason: "
StoppedSuffix == ". This often relates to safety settings."
EmptyPrefix == "The AI model did not return an image for the "
TextLead == "The model responded with text: "
GenericAdvice ==
    "This can happen due to safety filters or if the request is too complex. Please try rephrasing your prompt to be more direct."

\* response.promptFeedback?.blockReason
blockReasonOf(response) ==
    IF response.promptFeedback = None THEN None
    ELSE response.promptFeedback[1].blockReason

\* response.candidates?.[0]
firstCandidate(response) ==
    IF response.candidates = None \/ response.candidates[1] = <<>> THEN None
    ELSE Some(response.candidates[1][1])

\* variant: findLast instead of find
imagePartFromResponse_Last(response) ==
    LET c == firstCandidate(response)
    IN  IF c = None \/ c[1].content = None \/ c[1].content[1].parts = None THEN None
        ELSE LET parts == c[1].content[1].parts[1]
                 hits == {i \in 1..Len(parts) : parts[i].inlineData # None}
             IN  IF hits = {} THEN None
                 ELSE Some(parts[CHOOSE i \in hits : \A j \in hits : i >= j])

\* candidate?.content?.parts?.find(part => part.inlineData)
imagePartFromResponse(response) ==
    LET c == firstCandidate(response)
    IN  IF c = None \/ c[1].content = None \/ c[1].content[1].parts = None THEN None
        ELSE LET parts == c[1].content[1].parts[1]
                 hits == {i \in 1..Len(parts) : parts[i].inlineData # None}
             IN  IF hits = {} THEN None
                 ELSE Some(parts[CHOOSE i \in hits : \A j \in hits : i <= j])

\* variant: the finish reason of the last candidate
finishReasonOf_Last(response) ==
    IF response.candidates = None \/ response.candidates[1] = <<>> THEN None
    ELSE response.candidates[1][Len(response.candidates[1])].finishReason

\* response.candidates?.[0]?.finishReason
finishReasonOf(response) ==
    LET c == firstCandidate(response)
    IN  IF c = None THEN None ELSE c[1].finishReason

\* variant: the text taken without trim()
textFeedbackOf_NoTrim(response) == response.text

\* response.text?.trim()
textFeedbackOf(response) ==
    IF response.text = None THEN None ELSE Some(trim(response.text[1]))

\* variant: the image looked for before the block reason
handleApiResponse_ImageFirst(response, context) ==
    IF imagePartFromResponse(response) # None THEN
        LET d == imagePartFromResponse(response)[1].inlineData[1]
        IN  Returned(DataUrl(d.mimeType, d.data))
    ELSE IF Truthy(blockReasonOf(response)) THEN
        LET fb == response.promptFeedback[1]
        IN  Thrown(<<BlockedPrefix>> \o fb.blockReason[1] \o <<". ">>
                     \o (IF Truthy(fb.blockReasonMessage) THEN fb.blockReasonMessage[1] ELSE <<>>))
    ELSE IF Truthy(finishReasonOf(response)) /\ finishReasonOf(response)[1] # <<"STOP">> THEN
        Thrown(<<StoppedPrefix, context, StoppedInfix>> \o finishReasonOf(response)[1]
                 \o <<StoppedSuffix>>)
    ELSE
        Thrown(<<EmptyPrefix, context, ". ">>
                 \o (IF Truthy(textFeedbackOf(response))
                     THEN <<TextLead, "\"">> \o textFeedbackOf(response)[1] \o <<"\"">>
                     ELSE <<GenericAdvice>>))

\* variant: the fallback throws only when there is text to report
handleApiResponse_NoFinalThrow(response, context) ==
    IF Truthy(blockReasonOf(response)) THEN
        LET fb == response.promptFeedback[1]
        IN  Thrown(<<BlockedPrefix>> \o fb.blockReason[1] \o <<". ">>
                     \o (IF Truthy(fb.blockReasonMessage) THEN fb.blockReasonMessage[1] ELSE <<>>))
    ELSE IF imagePartFromResponse(response) # None THEN
        LET d == imagePartFromResponse(response)[1].inlineData[1]
        IN  Returned(DataUrl(d.mimeType, d.data))
    ELSE IF Truthy(finishReasonOf(response)) /\ finishReasonOf(response)[1] # <<"STOP">> THEN
        Thrown(<<StoppedPrefix, context, StoppedInfix>> \o finishReasonOf(response)[1]
                 \o <<StoppedSuffix>>)
    ELSE IF Truthy(textFeedbackOf(response)) THEN
        Thrown(<<EmptyPrefix, context, ". ", TextLead, "\"">> \o textFeedbackOf(response)[1] \o <<"\"">>)
    ELSE [returned |-> None, thrown |-> None]

\* variant: the fallback never reports the text of the response
handleApiResponse_GenericOnly(response, context) ==
    IF Truthy(blockReasonOf(response)) THEN
        LET fb == response.promptFeedback[1]
        IN  Thrown(<<BlockedPrefix>> \o fb.blockReason[1] \o <<". ">>
                     \o (IF Truthy(fb.blockReasonMessage) THEN fb.blockReasonMessage[1] ELSE <<>>))
    ELSE IF imagePartFromResponse(response) # None THEN
        LET d == imagePartFromResponse(response)[1].inlineData[1]
        IN  Returned(DataUrl(d.mimeType, d.data))
    ELSE IF Truthy(finishReasonOf(response)) /\ finishReasonOf(response)[1] # <<"STOP">> THEN
        Thrown(<<StoppedPrefix, context, StoppedInfix>> \o finishReasonOf(response)[1]
                 \o <<StoppedSuffix>>)
    ELSE
        Thrown(<<EmptyPrefix, context, ". ", GenericAdvice>>)

\* variant: the 'filter' operation looks for an image before the block reason
handleApiResponse_ByContext(response, context) ==
    IF context = "filter" THEN handleApiResponse_ImageFirst(response, context)
    ELSE IF Truthy(blockReasonOf(response)) THEN
        LET fb == response.promptFeedback[1]
        IN  Thrown(<<BlockedPrefix>> \o fb.blockReason[1] \o <<". ">>
                     \o (IF Truthy(fb.blockReasonMessage) THEN fb.blockReasonMessage[1] ELSE <<>>))
    ELSE IF imagePartFromResponse(response) # None THEN
        LET d == imagePartFromResponse(response)[1].inlineData[1]
        IN  Returned(DataUrl(d.mimeType, d.data))
    ELSE IF Truthy(finishReasonOf(response)) /\ finishReasonOf(response)[1] # <<"STOP">> THEN
        Thrown(<<StoppedPrefix, context, StoppedInfix>> \o finishReasonOf(response)[1]
                 \o <<StoppedSuffix>>)
    ELSE
        Thrown(<<EmptyPrefix, context, ". ">>
                 \o (IF Truthy(textFeedbackOf(response))
                     THEN <<TextLead, "\"">> \o textFeedbackOf(response)[1] \o <<"\"">>
                     ELSE <<GenericAdvice>>))

handleApiResponse(response, context) ==
    IF Truthy(blockReasonOf(response)) THEN
        LET fb == response.promptFeedback[1]
        IN  Thrown(<<BlockedPrefix>> \o fb.blockReason[1] \o <<". ">>
                     \o (IF Truthy(fb.blockReasonMessage) THEN fb.blockReasonMessage[1] ELSE <<>>))
    ELSE IF imagePartFromResponse(response) # None THEN
        LET d == imagePartFromResponse(response)[1].inlineData[1]
        IN  Returned(DataUrl(d.mimeType, d.data))
    ELSE IF Truthy(finishReasonOf(response)) /\ finishReasonOf(response)[1] # <<"STOP">> THEN
        Thrown(<<StoppedPrefix, context, StoppedInfix>> \o finishReasonOf(response)[1]
                 \o <<StoppedSuffix>>)
    ELSE
        Thrown(<<EmptyPrefix, context, ". ">>
                 \o (IF Truthy(textFeedbackOf(response))
                     THEN <<TextLead, "\"">> \o textFeedbackOf(response)[1] \o <<"\"">>
                     ELSE <<GenericAdvice>>))

\* the failure kind a thrown message stands for
IsBlocked(msg) == msg # <<>> /\ msg[1] = BlockedPrefix
IsStoppedEarly(msg) == Len(msg) >= 3 /\ msg[1] = StoppedPrefix /\ msg[3] = StoppedInfix
IsEmptyResult(msg) == Len(msg) >= 3 /\ msg[1] = EmptyPrefix

\* ----------------------------------------------------------- generateLogos
Payload1 == <<"Q", "U", "J", "D">>
Payload2 == <<"/", "w", "=", "=">>

\* an entry of generatedImages: image may be missing (a filtered image), and
\* so may its imageBytes
GeneratedImages ==
    { [image |-> None] }
    \cup { [image |-> Some([imageBytes |-> b])] : b \in {None, Some(Payload1), Some(Payload2)} }

ImageResponses ==
    { [generatedImages |-> None] }
    \cup { [generatedImages |-> Some(imgs)] : imgs \in SeqsUpTo(GeneratedImages, MaxImages) }

NoImagesMessage ==
    <<"The AI model did not return any images. This could be due to safety filters or a complex prompt. Please try again with different keywords.">>
TypeErrorMessage == <<"[TypeError: cannot read properties of undefined (reading 'imageBytes')]">>
TransportError == <<"[service call rejected]">>

\* `${v}` for an optional string
Interpolate(opt) == IF opt = None THEN <<"undefined">> ELSE opt[1]

\* img => `data:image/png;base64,${img.image.imageBytes}`
logoUrl(img) == <<"data", ":", "image/png", ";", "base64", ",">> \o Interpolate(img.image[1].imageBytes)

\* variant: only a missing array is refused, an empty one is mapped
generateLogosResult_NoEmptyTest(response) ==
    IF response.generatedImages = None
    THEN Thrown(NoImagesMessage)
    ELSE LET imgs == response.generatedImages[1]
         IN  IF \E i \in 1..Len(imgs) : imgs[i].image = None
             THEN Thrown(TypeErrorMessage)
             ELSE Returned([i \in 1..Len(imgs) |-> logoUrl(imgs[i])])

\* variant: images without bytes are filtered out before the map
generateLogosResult_Filtered(response) ==
    IF response.generatedImages = None \/ Len(response.generatedImages[1]) = 0
    THEN Thrown(NoImagesMessage)
    ELSE LET imgs == response.generatedImages[1]
         IN  IF \E i \in 1..Len(imgs) : imgs[i].image = None
             THEN Thrown(TypeErrorMessage)
             ELSE Returned(SelectSeq([i \in 1..Len(imgs) |-> logoUrl(imgs[i])],
                                     LAMBDA u : u[Len(u)] # "undefined"))

\* generateLogos once generateImages has resolved with response
generateLogosResult(response) ==
    IF response.generatedImages = None \/ Len(response.generatedImages[1]) = 0
    THEN Thrown(NoImagesMessage)
    ELSE LET imgs == response.generatedImages[1]
         IN  IF \E i \in 1..Len(imgs) : imgs[i].image = None
             THEN Thrown(TypeErrorMessage)
             ELSE Returned([i \in 1..Len(imgs) |-> logoUrl(imgs[i])])

\* ------------------------------------------------- generation operations
AssetOperations ==
    { "generateEditedImage", "generateFilteredImage", "generateAdjustedImage",
      "generateAdImage", "generateMockup" }

\* variant: generateMockup copied from generateEditedImage with its label
ContextOf_Copied(o) ==
    CASE o = "generateEditedImage" -> "edit"
      [] o = "generateFilteredImage" -> "filter"
      [] o = "generateAdjustedImage" -> "adjustment"
      [] o = "generateAdImage" -> "ad"
      [] o = "generateMockup" -> "edit"

\* the label each operation hands to handleApiResponse
ContextOf(o) ==
    CASE o = "generateEditedImage" -> "edit"
      [] o = "generateFilteredImage" -> "filter"
      [] o = "generateAdjustedImage" -> "adjustment"
      [] o = "generateAdImage" -> "ad"
      [] o = "generateMockup" -> "mockup"

\* the assets and responses the operations are run on
CallFiles == { f \in Files : Len(f.bytes) = 1 }

CallResponses ==
    { r \in Responses :
        /\ r.text \in {None, Some(<<" ", "n", "o", "\n">>)}
        /\ r.promptFeedback = None \/ Truthy(r.promptFeedback[1].blockReasonMessage)
        /\ r.candidates # None =>
              /\ Len(r.candidates[1]) <= 1
              /\ \A i \in 1..Len(r.candidates[1]) :
                    LET c == r.candidates[1][i].content
                    IN  c # None /\ c[1].parts # None => Len(c[1].parts[1]) <= 1 }

\* ------------------------------------------------------------------- state
VARIABLES
    fpPc, fpFile, fpDataUrl, fpResult,      \* one run of fileToPart
    hrPc, hrResponse, hrContext, hrOutcome, \* one run of handleApiResponse
    opPc, opName, opAsset, opPart,          \* one call of a generation operation
    opResponse, opOutcome,
    serviceCalls,                           \* requests this call sent to the service
    classifierCalls,                        \* (context, response) pairs this call
                                            \* handed to handleApiResponse
    prPc, prResponse, prContextA, prContextB, \* two runs of handleApiResponse
    prOutcomeA, prOutcomeB,                   \* on one response
    page,                                   \* App: the page that is rendered
    orphaned,                               \* requests still unresolved whose
                                            \* component instance is unmounted
    mkAssetFile, mkAssetPreviewUrl,         \* MockupGenerator: its useState cells
    mkMockupPrompt, mkGeneratedMockup,
    mkIsLoading, mkError,
    mkObjectUrls,                           \* object URLs created and not revoked
    mkInFlight,                             \* the generateMockup call not yet settled
    mkSettled,                              \* how the last generateMockup call settled
    mkMockupOf,                             \* the asset generatedMockup was made from
    lgStep, lgLogoData, lgGeneratedLogos,   \* LogoGenerator: its useState cells
    lgIsLoading, lgError,
    lgInFlight,                             \* the generateLogos call not yet settled
    lgSettled,                              \* how the last generateLogos call settled
    adMounted,                              \* GenerateAdPanel is rendered by the editor
    adLogoForAd, adIsLoading,               \* its props logoForAd and isLoading
    adLogoPreviewUrl,                       \* its useState cell
    adObjectUrls,                           \* object URLs created and not revoked
    adBrandColors,                          \* its prop brandColors
    adNewColor                              \* its useState cell newColor

fpVars == <<fpPc, fpFile, fpDataUrl, fpResult>>
hrVars == <<hrPc, hrResponse, hrContext, hrOutcome>>

opVars == <<opPc, opName, opAsset, opPart, opResponse, opOutcome, serviceCalls, classifierCalls>>

prVars == <<prPc, prResponse, prContextA, prContextB, prOutcomeA, prOutcomeB>>

mkVars == <<mkAssetFile, mkAssetPreviewUrl, mkMockupPrompt, mkGeneratedMockup,
            mkIsLoading, mkError, mkObjectUrls, mkInFlight, mkSettled, mkMockupOf>>

lgVars == <<lgStep, lgLogoData, lgGeneratedLogos, lgIsLoading, lgError, lgInFlight, lgSettled>>

adVars == <<adMounted, adLogoForAd, adIsLoading, adLogoPreviewUrl, adObjectUrls,
            adBrandColors, adNewColor>>

uiVars == <<page, orphaned, mkVars, lgVars, adVars>>

vars == <<fpVars, hrVars, opVars, prVars, uiVars>>

Pending == [returned |-> None, thrown |-> None]

FileToPartIdle ==
    /\ fpPc = "idle"
    /\ fpFile = None
    /\ fpDataUrl = None
    /\ fpResult = Pending

ClassifyIdle ==
    /\ hrPc = "idle"
    /\ hrResponse = None
    /\ hrContext = None
    /\ hrOutcome = Pending

OperationIdle ==
    /\ opPc = "idle"
    /\ opName = None
    /\ opAsset = None
    /\ opPart = None
    /\ opResponse = None
    /\ opOutcome = Pending
    /\ serviceCalls = 0
    /\ classifierCalls = <<>>

PairIdle ==
    /\ prPc = "idle"
    /\ prResponse = None
    /\ prContextA = None
    /\ prContextB = None
    /\ prOutcomeA = Pending
    /\ prOutcomeB = Pending

\* MockupGenerator as useState initialises it (lines 13-19), nothing in flight
MockupFresh ==
    /\ mkAssetFile = None
    /\ mkAssetPreviewUrl = None
    /\ mkMockupPrompt = <<>>
    /\ mkGeneratedMockup = None
    /\ mkIsLoading = FALSE
    /\ mkError = None
    /\ mkObjectUrls = <<>>
    /\ mkInFlight = <<>>
    /\ mkSettled = None
    /\ mkMockupOf = None

EmptyLogoData ==
    [name |-> <<>>, slogan |-> <<>>, industry |-> <<>>, styles |-> <<>>, colors |-> <<>>,
     iconography |-> <<>>]

\* LogoGenerator as useState initialises it (lines 33-44), nothing in flight
LogoFresh ==
    /\ lgStep = 1
    /\ lgLogoData = EmptyLogoData
    /\ lgGeneratedLogos = <<>>
    /\ lgIsLoading = FALSE
    /\ lgError = None
    /\ lgInFlight = <<>>
    /\ lgSettled = None

\* GenerateAdPanel not rendered, its parent holding no logo
AdPanelFresh ==
    /\ adMounted = FALSE
    /\ adLogoForAd = None
    /\ adIsLoading = FALSE
    /\ adLogoPreviewUrl = None
    /\ adObjectUrls = <<>>
    /\ adBrandColors = <<>>
    /\ adNewColor = <<"#">>

\* no page of the application is in use
UiIdle ==
    /\ page = "idle"
    /\ orphaned = 0
    /\ MockupFresh
    /\ LogoFresh
    /\ AdPanelFresh

\* ----------------------------------------------- fileToPart on its inputs
FileToPartInit ==
    /\ fpPc = "reading"
    /\ fpFile \in {Some(f) : f \in Files}
    /\ fpDataUrl = None
    /\ fpResult = Pending
    /\ ClassifyIdle
    /\ OperationIdle
    /\ PairIdle
    /\ UiIdle

\* reader.onload: the promise resolves and the rest of fileToPart runs
FileToPartLoad ==
    /\ fpPc = "reading"
    /\ \E url \in readAsDataURL(fpFile[1]) :
          /\ fpDataUrl' = Some(url)
          /\ fpResult' = fileToPart(url)
    /\ fpPc' = "settled"
    /\ UNCHANGED <<fpFile, hrVars, opVars, prVars, uiVars>>

\* reader.onerror: the promise rejects with the reader's error event
FileToPartError ==
    /\ fpPc = "reading"
    /\ fpResult' = Thrown(ReaderError)
    /\ fpPc' = "settled"
    /\ UNCHANGED <<fpFile, fpDataUrl, hrVars, opVars, prVars, uiVars>>

FileToPartNext == FileToPartLoad \/ FileToPartError

SpecFileToPart == FileToPartInit /\ [][FileToPartNext]_vars

\* ---------------------------------------- handleApiResponse on its inputs
ClassifyInit ==
    /\ hrPc = "called"
    /\ hrResponse \in {Some(r) : r \in Responses}
    /\ hrContext \in {Some(c) : c \in Contexts}
    /\ hrOutcome = Pending
    /\ FileToPartIdle
    /\ OperationIdle
    /\ PairIdle
    /\ UiIdle

HandleApiResponse ==
    /\ hrPc = "called"
    /\ hrOutcome' = handleApiResponse(hrResponse[1], hrContext[1])
    /\ hrPc' = "settled"
    /\ UNCHANGED <<hrResponse, hrContext, fpVars, opVars, prVars, uiVars>>

ClassifyNext == HandleApiResponse

SpecClassify == ClassifyInit /\ [][ClassifyNext]_vars

\* ------------------------- handleApiResponse twice on the same response
\* The console.error calls of lines 36, 53 and 62 write to the console and
\* to nothing the function reads: a run leaves no state behind for the next.
ClassifyPairInit ==
    /\ prPc = "called"
    /\ prResponse \in {Some(r) : r \in Responses}
    /\ prContextA \in {Some(c) : c \in Contexts}
    /\ prContextB \in {Some(c) : c \in Contexts}
    /\ prOutcomeA = Pending
    /\ prOutcomeB = Pending
    /\ FileToPartIdle
    /\ ClassifyIdle
    /\ OperationIdle
    /\ UiIdle

HandleApiResponseTwice ==
    /\ prPc = "called"
    /\ prOutcomeA' = handleApiResponse(prResponse[1], prContextA[1])
    /\ prOutcomeB' = handleApiResponse(prResponse[1], prContextB[1])
    /\ prPc' = "settled"
    /\ UNCHANGED <<prResponse, prContextA, prContextB, fpVars, hrVars, opVars, uiVars>>

ClassifyPairNext == HandleApiResponseTwice

SpecClassifyPair == ClassifyPairInit /\ [][ClassifyPairNext]_vars

\* ------------------------------------------------ the generation operations
\* The client (new GoogleGenAI({ apiKey })) is taken to be constructed: the
\* operations assert the key with "!".
Init ==
    /\ FileToPartIdle
    /\ ClassifyIdle
    /\ OperationIdle
    /\ PairIdle
    /\ UiIdle

\* a call of one of the five operations that attach an asset: it runs up to
\* `await fileToPart(...)`
StartWithAsset(o) ==
    /\ opPc = "idle"
    /\ \E f \in CallFiles : opAsset' = Some(f)
    /\ opName' = Some(o)
    /\ opPc' = "encoding"
    /\ opPart' = None
    /\ opResponse' = None
    /\ opOutcome' = Pending
    /\ serviceCalls' = 0
    /\ classifierCalls' = <<>>
    /\ UNCHANGED <<fpVars, hrVars, prVars, uiVars>>

generateEditedImage == StartWithAsset("generateEditedImage")
generateFilteredImage == StartWithAsset("generateFilteredImage")
generateAdjustedImage == StartWithAsset("generateAdjustedImage")
generateAdImage == StartWithAsset("generateAdImage")
generateMockup == StartWithAsset("generateMockup")

\* a call of generateLogos: no asset, it runs up to `await generateImages(...)`
generateLogos ==
    /\ opPc = "idle"
    /\ opName' = Some("generateLogos")
    /\ opAsset' = None
    /\ opPart' = None
    /\ opResponse' = None
    /\ opOutcome' = Pending
    /\ serviceCalls' = 1
    /\ classifierCalls' = <<>>
    /\ opPc' = "awaiting"
    /\ UNCHANGED <<fpVars, hrVars, prVars, uiVars>>

\* fileToPart settles with a value: a throw ends the call, a part lets it go
\* on to `await ai.models.generateContent(...)`
EncodingSettled ==
    /\ opPc = "encoding"
    /\ \E url \in readAsDataURL(opAsset[1]) :
          LET r == fileToPart(url)
          IN  IF r.thrown # None
              THEN /\ opOutcome' = r
                   /\ opPc' = "done"
                   /\ UNCHANGED <<opPart, serviceCalls>>
              ELSE /\ opPart' = r.returned
                   /\ serviceCalls' = serviceCalls + 1
                   /\ opPc' = "awaiting"
                   /\ UNCHANGED opOutcome
    /\ UNCHANGED <<opName, opAsset, opResponse, classifierCalls, fpVars, hrVars, prVars, uiVars>>

\* the reader fails: fileToPart rejects and the call ends
EncodingFailed ==
    /\ opPc = "encoding"
    /\ opOutcome' = Thrown(ReaderError)
    /\ opPc' = "done"
    /\ UNCHANGED <<opName, opAsset, opPart, opResponse, serviceCalls, classifierCalls, fpVars, hrVars, prVars, uiVars>>

\* generateContent resolves: `return handleApiResponse(response, <label>)`
ContentResponse ==
    /\ opPc = "awaiting"
    /\ opName[1] \in AssetOperations
    /\ \E r \in CallResponses :
          /\ opResponse' = Some(r)
          /\ classifierCalls' = Append(classifierCalls, [context |-> ContextOf(opName[1]), response |-> r])
          /\ opOutcome' = handleApiResponse(r, ContextOf(opName[1]))
    /\ opPc' = "done"
    /\ UNCHANGED <<opName, opAsset, opPart, serviceCalls, fpVars, hrVars, prVars, uiVars>>

\* generateImages resolves: the rest of generateLogos runs
ImagesResponse ==
    /\ opPc = "awaiting"
    /\ opName[1] = "generateLogos"
    /\ \E r \in ImageResponses :
          /\ opResponse' = Some(r)
          /\ opOutcome' = generateLogosResult(r)
    /\ opPc' = "done"
    /\ UNCHANGED <<opName, opAsset, opPart, serviceCalls, classifierCalls, fpVars, hrVars, prVars, uiVars>>

\* variant: a rejected service call is sent again
ServiceFailed_Retry ==
    /\ opPc = "awaiting"
    /\ serviceCalls' = serviceCalls + 1
    /\ UNCHANGED <<opPc, opName, opAsset, opPart, opResponse, opOutcome, classifierCalls, fpVars, hrVars, prVars, uiVars>>

\* the service call rejects (network, authentication): the call ends with it
ServiceFailed ==
    /\ opPc = "awaiting"
    /\ opOutcome' = Thrown(TransportError)
    /\ opPc' = "done"
    /\ UNCHANGED <<opName, opAsset, opPart, opResponse, serviceCalls, classifierCalls, fpVars, hrVars, prVars, uiVars>>

\* the caller has taken the outcome; the next call can start
Settle ==
    /\ opPc = "done"
    /\ opPc' = "idle"
    /\ opName' = None
    /\ opAsset' = None
    /\ opPart' = None
    /\ opResponse' = None
    /\ opOutcome' = Pending
    /\ serviceCalls' = 0
    /\ classifierCalls' = <<>>
    /\ UNCHANGED <<fpVars, hrVars, prVars, uiVars>>

Next ==
    \/ generateEditedImage
    \/ generateFilteredImage
    \/ generateAdjustedImage
    \/ generateAdImage
    \/ generateMockup
    \/ generateLogos
    \/ EncodingSettled
    \/ EncodingFailed
    \/ ContentResponse
    \/ ImagesResponse
    \/ ServiceFailed
    \/ Settle

Spec == Init /\ [][Next]_vars

\* ------------------------------------------------------------ the pages
\* App renders one page at a time (switch of lines 19-29): a component's
\* state exists while its page is shown and starts afresh the next time.
\* A handler, and the continuation of handleGenerate after its await, runs
\* to completion before the next event; the state updates it makes are
\* seen together, and an effect has run before the next event is handled.
\* isDraggingOver only changes a style and is left out.
MaxOrphans == 1      \* most unresolved requests left behind by closed pages

\* the files a user picks, the prompts a user types
UiFiles == { [type |-> <<"image/png">>, bytes |-> <<77>>], [type |-> <<>>, bytes |-> <<0>>] }
UiPrompts == { <<>>, <<" ">>, <<"on a mug">> }

UnknownError == <<"An unknown error occurred.">>

\* err instanceof Error ? err.message : 'An unknown error occurred.'
\* (the event a FileReader rejects with is not an Error)
ErrorText(e) == IF e = ReaderError THEN UnknownError ELSE e

\* URL.createObjectURL(file)
objectUrl(file) == <<"blob:", file>>

\* URL.revokeObjectURL(u) on the URLs that are live
revokeObjectURL(urls, u) ==
    IF \E i \in 1..Len(urls) : urls[i] = u
    THEN LET k == CHOOSE i \in 1..Len(urls) : urls[i] = u /\ \A j \in 1..(i - 1) : urls[j] # u
         IN  SubSeq(urls, 1, k - 1) \o SubSeq(urls, k + 1, Len(urls))
    ELSE urls

\* variant: the effect returns no cleanup
MockupPreviewEffect_NoCleanup(urls, shown, file) ==
    IF file = None THEN urls ELSE Append(urls, objectUrl(file[1]))

\* useEffect(..., [assetFile]) when assetFile becomes file: the cleanup of
\* the run before (it revokes the URL that run created, the one shown), then
\* the body; gives the URLs that are live afterwards
MockupPreviewEffect(urls, shown, file) ==
    LET kept == IF shown = None THEN urls ELSE revokeObjectURL(urls, shown[1])
    IN  IF file = None THEN kept ELSE Append(kept, objectUrl(file[1]))

\* what the effect hands to setAssetPreviewUrl
PreviewUrlOf(file) == IF file = None THEN None ELSE Some(objectUrl(file[1]))

\* the ways generateMockup(file, prompt) can settle
generateMockupOutcomes(file) ==
    { Thrown(ReaderError) }
    \cup { fileToPart(u) : u \in { v \in readAsDataURL(file) : fileToPart(v).thrown # None } }
    \cup (IF \E u \in readAsDataURL(file) : fileToPart(u).returned # None
          THEN { Thrown(TransportError) }
               \cup { handleApiResponse(r, ContextOf("generateMockup")) : r \in CallResponses }
          ELSE {})

UiInit ==
    /\ page = "home"
    /\ orphaned = 0
    /\ MockupFresh
    /\ LogoFresh
    /\ AdPanelFresh
    /\ FileToPartIdle
    /\ ClassifyIdle
    /\ OperationIdle
    /\ PairIdle

\* HomePage: a ToolCard is clicked
SelectTool(p) ==
    /\ page = "home"
    /\ page' = p
    /\ UNCHANGED <<orphaned, mkVars, lgVars, adVars, fpVars, hrVars, opVars, prVars>>

\* handleFileSelect, from the drop zone or the file input of AssetUploader
MockupFileSelect(f) ==
    /\ page = "mockup"
    /\ ~(mkAssetFile # None /\ mkAssetPreviewUrl # None)
    /\ mkAssetFile' = Some(f)
    /\ mkGeneratedMockup' = None
    /\ mkMockupOf' = None
    /\ mkError' = None
    /\ mkObjectUrls' = MockupPreviewEffect(mkObjectUrls, mkAssetPreviewUrl, Some(f))
    /\ mkAssetPreviewUrl' = PreviewUrlOf(Some(f))
    /\ UNCHANGED <<mkMockupPrompt, mkIsLoading, mkInFlight, mkSettled,
                   page, orphaned, lgVars, adVars, fpVars, hrVars, opVars, prVars>>

\* "Replace asset": setAssetFile(null)
MockupReplaceAsset ==
    /\ page = "mockup"
    /\ mkAssetFile # None /\ mkAssetPreviewUrl # None
    /\ mkAssetFile' = None
    /\ mkObjectUrls' = MockupPreviewEffect(mkObjectUrls, mkAssetPreviewUrl, None)
    /\ mkAssetPreviewUrl' = PreviewUrlOf(None)
    /\ UNCHANGED <<mkMockupPrompt, mkGeneratedMockup, mkMockupOf, mkIsLoading, mkError,
                   mkInFlight, mkSettled, page, orphaned, lgVars, adVars, fpVars, hrVars, opVars, prVars>>

\* the textarea's onChange
MockupEditPrompt(p) ==
    /\ page = "mockup"
    /\ ~(mkIsLoading \/ mkAssetFile = None)
    /\ mkMockupPrompt' = p
    /\ UNCHANGED <<mkAssetFile, mkAssetPreviewUrl, mkGeneratedMockup, mkMockupOf, mkIsLoading,
                   mkError, mkObjectUrls, mkInFlight, mkSettled,
                   page, orphaned, lgVars, adVars, fpVars, hrVars, opVars, prVars>>

\* variant: the button is not disabled while a request is in flight
MockupGenerate_NoLoadingTest ==
    /\ page = "mockup"
    /\ ~(mkAssetFile = None \/ trim(mkMockupPrompt) = <<>>)
    /\ ~(mkAssetFile = None \/ mkMockupPrompt = <<>>)
    /\ mkIsLoading' = TRUE
    /\ mkError' = None
    /\ mkGeneratedMockup' = None
    /\ mkMockupOf' = None
    /\ mkInFlight' = Append(mkInFlight, [asset |-> mkAssetFile[1], prompt |-> mkMockupPrompt])
    /\ mkSettled' = None
    /\ UNCHANGED <<mkAssetFile, mkAssetPreviewUrl, mkMockupPrompt, mkObjectUrls,
                   page, orphaned, lgVars, adVars, fpVars, hrVars, opVars, prVars>>

\* variant: handleGenerate without its setError(null)
MockupGenerate_KeepsError ==
    /\ page = "mockup"
    /\ ~(mkIsLoading \/ mkAssetFile = None \/ trim(mkMockupPrompt) = <<>>)
    /\ ~(mkAssetFile = None \/ mkMockupPrompt = <<>>)
    /\ mkIsLoading' = TRUE
    /\ mkGeneratedMockup' = None
    /\ mkMockupOf' = None
    /\ mkInFlight' = Append(mkInFlight, [asset |-> mkAssetFile[1], prompt |-> mkMockupPrompt])
    /\ mkSettled' = None
    /\ UNCHANGED <<mkAssetFile, mkAssetPreviewUrl, mkMockupPrompt, mkObjectUrls, mkError,
                   page, orphaned, lgVars, adVars, fpVars, hrVars, opVars, prVars>>

\* "Generate Mockup" is clicked (the button is enabled): handleGenerate up to
\* its await
MockupGenerate ==
    /\ page = "mockup"
    /\ ~(mkIsLoading \/ mkAssetFile = None \/ trim(mkMockupPrompt) = <<>>)
    /\ ~(mkAssetFile = None \/ mkMockupPrompt = <<>>)
    /\ mkIsLoading' = TRUE
    /\ mkError' = None
    /\ mkGeneratedMockup' = None
    /\ mkMockupOf' = None
    /\ mkInFlight' = Append(mkInFlight, [asset |-> mkAssetFile[1], prompt |-> mkMockupPrompt])
    /\ mkSettled' = None
    /\ UNCHANGED <<mkAssetFile, mkAssetPreviewUrl, mkMockupPrompt, mkObjectUrls,
                   page, orphaned, lgVars, adVars, fpVars, hrVars, opVars, prVars>>

\* "OK" of the error panel: setError(null)
MockupDismissError ==
    /\ page = "mockup"
    /\ mkError # None
    /\ mkError' = None
    /\ UNCHANGED <<mkAssetFile, mkAssetPreviewUrl, mkMockupPrompt, mkGeneratedMockup, mkMockupOf,
                   mkIsLoading, mkObjectUrls, mkInFlight, mkSettled,
                   page, orphaned, lgVars, adVars, fpVars, hrVars, opVars, prVars>>

\* a sequence without its i-th element
Without(seq, i) == SubSeq(seq, 1, i - 1) \o SubSeq(seq, i + 1, Len(seq))

\* variant: every failure is shown as the fallback text
MockupSettle_FallbackText(i) ==
    /\ page = "mockup"
    /\ i \in 1..Len(mkInFlight)
    /\ \E o \in generateMockupOutcomes(mkInFlight[i].asset) :
          /\ mkSettled' = Some(o)
          /\ IF o.returned # None
             THEN /\ mkGeneratedMockup' = o.returned
                  /\ mkMockupOf' = Some(mkInFlight[i].asset)
                  /\ UNCHANGED mkError
             ELSE /\ mkError' = Some(UnknownError)
                  /\ UNCHANGED <<mkGeneratedMockup, mkMockupOf>>
    /\ mkIsLoading' = FALSE
    /\ mkInFlight' = Without(mkInFlight, i)
    /\ UNCHANGED <<mkAssetFile, mkAssetPreviewUrl, mkMockupPrompt, mkObjectUrls,
                   page, orphaned, lgVars, adVars, fpVars, hrVars, opVars, prVars>>

\* variant: setIsLoading(false) at the end of the try block, not in finally
MockupSettle_NoFinally(i) ==
    /\ page = "mockup"
    /\ i \in 1..Len(mkInFlight)
    /\ \E o \in generateMockupOutcomes(mkInFlight[i].asset) :
          /\ mkSettled' = Some(o)
          /\ IF o.returned # None
             THEN /\ mkGeneratedMockup' = o.returned
                  /\ mkMockupOf' = Some(mkInFlight[i].asset)
                  /\ mkIsLoading' = FALSE
                  /\ UNCHANGED mkError
             ELSE /\ mkError' = Some(ErrorText(o.thrown[1]))
                  /\ UNCHANGED <<mkGeneratedMockup, mkMockupOf, mkIsLoading>>
    /\ mkInFlight' = Without(mkInFlight, i)
    /\ UNCHANGED <<mkAssetFile, mkAssetPreviewUrl, mkMockupPrompt, mkObjectUrls,
                   page, orphaned, lgVars, adVars, fpVars, hrVars, opVars, prVars>>

\* the awaited generateMockup call settles: the rest of handleGenerate (try,
\* catch, finally)
MockupSettle(i) ==
    /\ page = "mockup"
    /\ i \in 1..Len(mkInFlight)
    /\ \E o \in generateMockupOutcomes(mkInFlight[i].asset) :
          /\ mkSettled' = Some(o)
          /\ IF o.returned # None
             THEN /\ mkGeneratedMockup' = o.returned
                  /\ mkMockupOf' = Some(mkInFlight[i].asset)
                  /\ UNCHANGED mkError
             ELSE /\ mkError' = Some(ErrorText(o.thrown[1]))
                  /\ UNCHANGED <<mkGeneratedMockup, mkMockupOf>>
    /\ mkIsLoading' = FALSE
    /\ mkInFlight' = Without(mkInFlight, i)
    /\ UNCHANGED <<mkAssetFile, mkAssetPreviewUrl, mkMockupPrompt, mkObjectUrls,
                   page, orphaned, lgVars, adVars, fpVars, hrVars, opVars, prVars>>

\* the Header's onNavigateHome while MockupGenerator is shown: the component
\* unmounts, its effect's cleanup runs, its state is dropped; a call it was
\* awaiting goes on without it
NavigateHomeFromMockup ==
    /\ page = "mockup"
    /\ orphaned + Len(mkInFlight) <= MaxOrphans
    /\ page' = "home"
    /\ orphaned' = orphaned + Len(mkInFlight)
    /\ mkObjectUrls' = MockupPreviewEffect(mkObjectUrls, mkAssetPreviewUrl, None)
    /\ mkAssetFile' = None
    /\ mkAssetPreviewUrl' = None
    /\ mkMockupPrompt' = <<>>
    /\ mkGeneratedMockup' = None
    /\ mkIsLoading' = FALSE
    /\ mkError' = None
    /\ mkInFlight' = <<>>
    /\ mkSettled' = None
    /\ mkMockupOf' = None
    /\ UNCHANGED <<lgVars, adVars, fpVars, hrVars, opVars, prVars>>

\* ----------------------------------------------------- LogoGenerator
LogoStyles == { "Modern", "Minimalist", "Classic", "Playful", "Luxury", "Bold" }

Iconographies ==
    { "Abstract Shape", "Literal Icon (e.g., a tooth for a dentist)",
      "Letter Mark (using brand initials)", "No icon, text only" }

\* what a user types into a text input
UiTexts == { <<>>, <<"Acme">> }

\* the text inputs each step of the wizard shows
FieldsOfStep(n) ==
    CASE n = 1 -> {"name", "slogan"}
      [] n = 2 -> {"industry"}
      [] n = 4 -> {"colors"}
      [] OTHER -> {}

\* renderContent gets past its three early returns: the wizard form is shown
LogoFormShown == ~lgIsLoading /\ lgError = None /\ ~(lgStep > 5)

\* the ways generateLogos(logoData) can settle
generateLogosOutcomes ==
    { Thrown(TransportError) } \cup { generateLogosResult(r) : r \in ImageResponses }

\* onChange of a text input: setLogoData({...logoData, [field]: value})
LogoEditText(field, v) ==
    /\ page = "logo"
    /\ LogoFormShown
    /\ field \in FieldsOfStep(lgStep)
    /\ lgLogoData' = [lgLogoData EXCEPT ![field] = v]
    /\ UNCHANGED <<lgStep, lgGeneratedLogos, lgIsLoading, lgError, lgInFlight, lgSettled,
                   page, orphaned, mkVars, adVars, fpVars, hrVars, opVars, prVars>>

\* variant: the OptionButtons are never disabled
handleStyleToggle_NoLimit(style) ==
    /\ page = "logo"
    /\ LogoFormShown
    /\ lgStep = 3
    /\ lgLogoData' = [lgLogoData EXCEPT !.styles =
                         IF Contains(lgLogoData.styles, <<style>>)
                         THEN SelectSeq(lgLogoData.styles, LAMBDA x : x # style)
                         ELSE Append(lgLogoData.styles, style)]
    /\ UNCHANGED <<lgStep, lgGeneratedLogos, lgIsLoading, lgError, lgInFlight, lgSettled,
                   page, orphaned, mkVars, adVars, fpVars, hrVars, opVars, prVars>>

\* handleStyleToggle, from an OptionButton of step 3 that is not disabled
handleStyleToggle(style) ==
    /\ page = "logo"
    /\ LogoFormShown
    /\ lgStep = 3
    /\ ~(~Contains(lgLogoData.styles, <<style>>) /\ Len(lgLogoData.styles) >= 3)
    /\ lgLogoData' = [lgLogoData EXCEPT !.styles =
                         IF Contains(lgLogoData.styles, <<style>>)
                         THEN SelectSeq(lgLogoData.styles, LAMBDA x : x # style)
                         ELSE Append(lgLogoData.styles, style)]
    /\ UNCHANGED <<lgStep, lgGeneratedLogos, lgIsLoading, lgError, lgInFlight, lgSettled,
                   page, orphaned, mkVars, adVars, fpVars, hrVars, opVars, prVars>>

\* an OptionButton of step 5: setLogoData({...logoData, iconography: icon})
LogoChooseIconography(icon) ==
    /\ page = "logo"
    /\ LogoFormShown
    /\ lgStep = 5
    /\ lgLogoData' = [lgLogoData EXCEPT !.iconography = <<icon>>]
    /\ UNCHANGED <<lgStep, lgGeneratedLogos, lgIsLoading, lgError, lgInFlight, lgSettled,
                   page, orphaned, mkVars, adVars, fpVars, hrVars, opVars, prVars>>

\* "Next" (shown when step < 5, disabled without a name)
handleNext ==
    /\ page = "logo"
    /\ LogoFormShown
    /\ lgStep < 5
    /\ lgLogoData.name # <<>>
    /\ lgStep' = lgStep + 1
    /\ UNCHANGED <<lgLogoData, lgGeneratedLogos, lgIsLoading, lgError, lgInFlight, lgSettled,
                   page, orphaned, mkVars, adVars, fpVars, hrVars, opVars, prVars>>

\* "Back" (disabled at step 1)
handleBack ==
    /\ page = "logo"
    /\ LogoFormShown
    /\ lgStep # 1
    /\ lgStep' = lgStep - 1
    /\ UNCHANGED <<lgLogoData, lgGeneratedLogos, lgIsLoading, lgError, lgInFlight, lgSettled,
                   page, orphaned, mkVars, adVars, fpVars, hrVars, opVars, prVars>>

\* "Generate Logos" (shown at step 5, disabled without an iconography):
\* handleGenerate up to its await; the continuation keeps the step and the
\* logoData of this render
LogoGenerate ==
    /\ page = "logo"
    /\ LogoFormShown
    /\ lgStep = 5
    /\ lgLogoData.iconography # <<>>
    /\ lgIsLoading' = TRUE
    /\ lgError' = None
    /\ lgInFlight' = Append(lgInFlight, [logoData |-> lgLogoData, step |-> lgStep])
    /\ lgSettled' = None
    /\ UNCHANGED <<lgStep, lgLogoData, lgGeneratedLogos,
                   page, orphaned, mkVars, adVars, fpVars, hrVars, opVars, prVars>>

\* variant: setStep(step + 1) moved into the finally block
LogoSettle_StepInFinally(i) ==
    /\ page = "logo"
    /\ i \in 1..Len(lgInFlight)
    /\ \E o \in generateLogosOutcomes :
          /\ lgSettled' = Some(o)
          /\ IF o.returned # None
             THEN /\ lgGeneratedLogos' = o.returned[1]
                  /\ UNCHANGED lgError
             ELSE /\ lgError' = Some(ErrorText(o.thrown[1]))
                  /\ UNCHANGED lgGeneratedLogos
    /\ lgStep' = lgInFlight[i].step + 1
    /\ lgIsLoading' = FALSE
    /\ lgInFlight' = Without(lgInFlight, i)
    /\ UNCHANGED <<lgLogoData, page, orphaned, mkVars, adVars, fpVars, hrVars, opVars, prVars>>

\* the awaited generateLogos call settles: the rest of handleGenerate
LogoSettle(i) ==
    /\ page = "logo"
    /\ i \in 1..Len(lgInFlight)
    /\ \E o \in generateLogosOutcomes :
          /\ lgSettled' = Some(o)
          /\ IF o.returned # None
             THEN /\ lgGeneratedLogos' = o.returned[1]
                  /\ lgStep' = lgInFlight[i].step + 1
                  /\ UNCHANGED lgError
             ELSE /\ lgError' = Some(ErrorText(o.thrown[1]))
                  /\ UNCHANGED <<lgGeneratedLogos, lgStep>>
    /\ lgIsLoading' = FALSE
    /\ lgInFlight' = Without(lgInFlight, i)
    /\ UNCHANGED <<lgLogoData, page, orphaned, mkVars, adVars, fpVars, hrVars, opVars, prVars>>

\* variant: "Try Again" wired to handleReset
LogoTryAgain_Resets ==
    /\ page = "logo"
    /\ ~lgIsLoading
    /\ lgError # None
    /\ lgError' = None
    /\ lgStep' = 1
    /\ lgGeneratedLogos' = <<>>
    /\ lgLogoData' = EmptyLogoData
    /\ UNCHANGED <<lgIsLoading, lgInFlight, lgSettled,
                   page, orphaned, mkVars, adVars, fpVars, hrVars, opVars, prVars>>

\* "Try Again" of the error panel
LogoTryAgain ==
    /\ page = "logo"
    /\ ~lgIsLoading
    /\ lgError # None
    /\ lgError' = None
    /\ lgStep' = IF lgStep - 1 > 0 THEN lgStep - 1 ELSE 1
    /\ UNCHANGED <<lgLogoData, lgGeneratedLogos, lgIsLoading, lgInFlight, lgSettled,
                   page, orphaned, mkVars, adVars, fpVars, hrVars, opVars, prVars>>

\* "Start Over" of the results view
handleReset ==
    /\ page = "logo"
    /\ ~lgIsLoading
    /\ lgError = None
    /\ lgStep > 5
    /\ lgStep' = 1
    /\ lgGeneratedLogos' = <<>>
    /\ lgError' = None
    /\ lgLogoData' = EmptyLogoData
    /\ lgSettled' = None
    /\ UNCHANGED <<lgIsLoading, lgInFlight,
                   page, orphaned, mkVars, adVars, fpVars, hrVars, opVars, prVars>>

\* the Header's onNavigateHome while LogoGenerator is shown
NavigateHomeFromLogo ==
    /\ page = "logo"
    /\ orphaned + Len(lgInFlight) <= MaxOrphans
    /\ page' = "home"
    /\ orphaned' = orphaned + Len(lgInFlight)
    /\ lgStep' = 1
    /\ lgLogoData' = EmptyLogoData
    /\ lgGeneratedLogos' = <<>>
    /\ lgIsLoading' = FALSE
    /\ lgError' = None
    /\ lgInFlight' = <<>>
    /\ lgSettled' = None
    /\ UNCHANGED <<mkVars, adVars, fpVars, hrVars, opVars, prVars>>

\* ---------------------------------------------------- GenerateAdPanel
\* The panel is rendered by the editor page, which owns logoForAd and
\* isLoading and hands them down as props (lines 9-18).

\* useEffect(..., [logoForAd]) when logoForAd becomes file: the cleanup of
\* the run before, then the body; gives the URLs that are live afterwards
AdPreviewEffect(urls, shown, file) ==
    LET kept == IF shown = None THEN urls ELSE revokeObjectURL(urls, shown[1])
    IN  IF file = None THEN kept ELSE Append(kept, objectUrl(file[1]))

\* the editor renders the panel: its effect runs for the logo the editor holds
AdPanelMount ==
    /\ page = "editor"
    /\ ~adMounted
    /\ adMounted' = TRUE
    /\ adObjectUrls' = AdPreviewEffect(adObjectUrls, None, adLogoForAd)
    /\ adLogoPreviewUrl' = PreviewUrlOf(adLogoForAd)
    /\ UNCHANGED <<adLogoForAd, adIsLoading, adBrandColors, adNewColor,
                   page, orphaned, mkVars, lgVars, fpVars, hrVars, opVars, prVars>>

\* the editor stops rendering the panel: the effect's cleanup runs
AdPanelUnmount ==
    /\ page = "editor"
    /\ adMounted
    /\ adMounted' = FALSE
    /\ adObjectUrls' = AdPreviewEffect(adObjectUrls, adLogoPreviewUrl, None)
    /\ adLogoPreviewUrl' = None
    /\ adNewColor' = <<"#">>
    /\ UNCHANGED <<adLogoForAd, adIsLoading, adBrandColors,
                   page, orphaned, mkVars, lgVars, fpVars, hrVars, opVars, prVars>>

\* handleFileSelect, from the drop zone or the file input of LogoUploader
AdFileSelect(f) ==
    /\ page = "editor"
    /\ adMounted
    /\ adLogoForAd = None
    /\ adLogoForAd' = Some(f)
    /\ adObjectUrls' = AdPreviewEffect(adObjectUrls, adLogoPreviewUrl, Some(f))
    /\ adLogoPreviewUrl' = PreviewUrlOf(Some(f))
    /\ UNCHANGED <<adMounted, adIsLoading, adBrandColors, adNewColor,
                   page, orphaned, mkVars, lgVars, fpVars, hrVars, opVars, prVars>>

\* the "Remove logo" button of LogoPreview: setLogoForAd(null)
AdRemoveLogo ==
    /\ page = "editor"
    /\ adMounted
    /\ adLogoForAd # None
    /\ ~adIsLoading
    /\ adLogoForAd' = None
    /\ adObjectUrls' = AdPreviewEffect(adObjectUrls, adLogoPreviewUrl, None)
    /\ adLogoPreviewUrl' = PreviewUrlOf(None)
    /\ UNCHANGED <<adMounted, adIsLoading, adBrandColors, adNewColor,
                   page, orphaned, mkVars, lgVars, fpVars, hrVars, opVars, prVars>>

\* the editor renders the panel with another value of its isLoading prop
EditorSetsLoading(b) ==
    /\ page = "editor"
    /\ adIsLoading # b
    /\ adIsLoading' = b
    /\ UNCHANGED <<adMounted, adLogoForAd, adLogoPreviewUrl, adObjectUrls,
                   adBrandColors, adNewColor,
                   page, orphaned, mkVars, lgVars, fpVars, hrVars, opVars, prVars>>

\* the editor renders the panel with another value of its logoForAd prop;
\* when the panel is rendered its effect runs again
EditorSetsLogo(v) ==
    /\ page = "editor"
    /\ adLogoForAd # v
    /\ adLogoForAd' = v
    /\ IF adMounted
       THEN /\ adObjectUrls' = AdPreviewEffect(adObjectUrls, adLogoPreviewUrl, v)
            /\ adLogoPreviewUrl' = PreviewUrlOf(v)
       ELSE UNCHANGED <<adObjectUrls, adLogoPreviewUrl>>
    /\ UNCHANGED <<adMounted, adIsLoading, adBrandColors, adNewColor,
                   page, orphaned, mkVars, lgVars, fpVars, hrVars, opVars, prVars>>

\* A colour is a string, here the sequence of its characters.
HexDigits == { "0", "1", "2", "3", "4", "5", "6", "7", "8", "9", "A", "B", "C", "D", "E", "F" }

\* String.prototype.toUpperCase on one character, on a string
UpperChar(c) ==
    CASE c = "a" -> "A" [] c = "b" -> "B" [] c = "c" -> "C" [] c = "d" -> "D"
      [] c = "e" -> "E" [] c = "f" -> "F" [] c = "g" -> "G" [] OTHER -> c

toUpperCase(str) == [i \in 1..Len(str) |-> UpperChar(str[i])]

\* /^#([0-9A-F]{3}){1,2}$/i.test(str)
hexColorTest(str) ==
    /\ Len(str) \in {4, 7}
    /\ str[1] = "#"
    /\ \A i \in 2..Len(str) : UpperChar(str[i]) \in HexDigits

\* brandColors.includes(color)
includes(colors, color) == \E i \in 1..Len(colors) : colors[i] = color

\* what a user types into the colour input (maxLength 7)
ColorInputs ==
    { <<>>, <<"#">>,
      <<"#", "a", "b", "c">>, <<"#", "A", "B", "C">>, <<"#", "0", "A", "f">>,
      <<"#", "1", "f", "2", "E", "3", "d">>,
      <<"#", "1", "f">>, <<"#", "a", "b", "c", "d">>, <<"#", "g", "g", "g">>,
      <<"a", "b", "c">>, <<"a", "b", "c", "d">> }

\* onChange of the colour input: setNewColor(e.target.value)
AdEditNewColor(v) ==
    /\ page = "editor"
    /\ adMounted
    /\ ~adIsLoading
    /\ adNewColor' = v
    /\ UNCHANGED <<adMounted, adLogoForAd, adIsLoading, adLogoPreviewUrl, adObjectUrls,
                   adBrandColors,
                   page, orphaned, mkVars, lgVars, fpVars, hrVars, opVars, prVars>>

\* variant: the colour is tested and stored as typed, without toUpperCase
handleAddColor_AsTyped ==
    /\ page = "editor"
    /\ adMounted
    /\ ~adIsLoading
    /\ IF hexColorTest(adNewColor) /\ ~includes(adBrandColors, adNewColor)
       THEN /\ adBrandColors' = Append(adBrandColors, adNewColor)
            /\ adNewColor' = <<"#">>
       ELSE UNCHANGED <<adBrandColors, adNewColor>>
    /\ UNCHANGED <<adMounted, adLogoForAd, adIsLoading, adLogoPreviewUrl, adObjectUrls,
                   page, orphaned, mkVars, lgVars, fpVars, hrVars, opVars, prVars>>

\* "Add": handleAddColor; setBrandColors is taken to store what it is given
handleAddColor ==
    /\ page = "editor"
    /\ adMounted
    /\ ~adIsLoading
    /\ IF hexColorTest(adNewColor) /\ ~includes(adBrandColors, toUpperCase(adNewColor))
       THEN /\ adBrandColors' = Append(adBrandColors, toUpperCase(adNewColor))
            /\ adNewColor' = <<"#">>
       ELSE UNCHANGED <<adBrandColors, adNewColor>>
    /\ UNCHANGED <<adMounted, adLogoForAd, adIsLoading, adLogoPreviewUrl, adObjectUrls,
                   page, orphaned, mkVars, lgVars, fpVars, hrVars, opVars, prVars>>

\* the remove button of a colour that is listed: handleRemoveColor
handleRemoveColor(colorToRemove) ==
    /\ page = "editor"
    /\ adMounted
    /\ ~adIsLoading
    /\ includes(adBrandColors, colorToRemove)
    /\ adBrandColors' = SelectSeq(adBrandColors, LAMBDA color : color # colorToRemove)
    /\ UNCHANGED <<adMounted, adLogoForAd, adIsLoading, adLogoPreviewUrl, adObjectUrls,
                   adNewColor,
                   page, orphaned, mkVars, lgVars, fpVars, hrVars, opVars, prVars>>

\* the Header's onNavigateHome while the editor is shown: the editor and the
\* panel in it unmount
NavigateHomeFromEditor ==
    /\ page = "editor"
    /\ page' = "home"
    /\ adMounted' = FALSE
    /\ adObjectUrls' = AdPreviewEffect(adObjectUrls, adLogoPreviewUrl, None)
    /\ adLogoPreviewUrl' = None
    /\ adLogoForAd' = None
    /\ adIsLoading' = FALSE
    /\ adBrandColors' = <<>>
    /\ adNewColor' = <<"#">>
    /\ UNCHANGED <<orphaned, mkVars, lgVars, fpVars, hrVars, opVars, prVars>>

\* a call whose component is gone settles: its setState calls change nothing
OrphanSettle ==
    /\ orphaned > 0
    /\ orphaned' = orphaned - 1
    /\ UNCHANGED <<page, mkVars, lgVars, adVars, fpVars, hrVars, opVars, prVars>>

UiNext ==
    \/ \E p \in {"editor", "logo", "mockup"} : SelectTool(p)
    \/ \E f \in UiFiles : MockupFileSelect(f)
    \/ MockupReplaceAsset
    \/ \E p \in UiPrompts : MockupEditPrompt(p)
    \/ MockupGenerate
    \/ MockupDismissError
    \/ \E i \in 1..Len(mkInFlight) : MockupSettle(i)
    \/ NavigateHomeFromMockup
    \/ \E field \in {"name", "slogan", "industry", "colors"} : \E v \in UiTexts :
          LogoEditText(field, v)
    \/ \E style \in LogoStyles : handleStyleToggle(style)
    \/ \E icon \in Iconographies : LogoChooseIconography(icon)
    \/ handleNext
    \/ handleBack
    \/ LogoGenerate
    \/ \E i \in 1..Len(lgInFlight) : LogoSettle(i)
    \/ LogoTryAgain
    \/ handleReset
    \/ NavigateHomeFromLogo
    \/ AdPanelMount
    \/ AdPanelUnmount
    \/ \E f \in UiFiles : AdFileSelect(f)
    \/ AdRemoveLogo
    \/ \E b \in BOOLEAN : EditorSetsLoading(b)
    \/ \E v \in {None} \cup {Some(f) : f \in UiFiles} : EditorSetsLogo(v)
    \/ \E v \in ColorInputs : AdEditNewColor(v)
    \/ handleAddColor
    \/ \E i \in 1..Len(adBrandColors) : handleRemoveColor(adBrandColors[i])
    \/ NavigateHomeFromEditor
    \/ OrphanSettle

SpecUI == UiInit /\ [][UiNext]_vars

\* ===================================================================
\* Properties of handleApiResponse (under SpecClassify)
\* ===================================================================
Classified == hrPc = "settled"

\* the fields of the classified response, read off the state
BlockReasonGiven ==
    /\ hrResponse[1].promptFeedback # None
    /\ hrResponse[1].promptFeedback[1].blockReason # None

CandidateCount ==
    IF hrResponse[1].candidates = None THEN 0 ELSE Len(hrResponse[1].candidates[1])

\* the parts of the k-th candidate (<<>> when it has none)
PartsOfCandidate(k) ==
    LET c == hrResponse[1].candidates[1][k]
    IN  IF c.content = None \/ c.content[1].parts = None THEN <<>>
        ELSE c.content[1].parts[1]

HasInlinePart(k) ==
    \E i \in 1..Len(PartsOfCandidate(k)) : PartsOfCandidate(k)[i].inlineData # None

AnyInlinePart == \E k \in 1..CandidateCount : HasInlinePart(k)

FirstFinishReason ==
    IF CandidateCount = 0 THEN None ELSE hrResponse[1].candidates[1][1].finishReason

FailedWith(msg) == hrOutcome = [returned |-> None, thrown |-> Some(msg)]

\* C1: a response whose promptFeedback.blockReason is set is classified as
\* Blocked, with the block reason in the message, whatever candidates, image
\* parts, finish reason or text it also carries; no data URL is returned.
C1_BlockedWhateverElse ==
    (Classified /\ BlockReasonGiven) =>
        /\ hrOutcome.returned = None
        /\ hrOutcome.thrown # None
        /\ IsBlocked(hrOutcome.thrown[1])
        /\ Contains(hrOutcome.thrown[1], hrResponse[1].promptFeedback[1].blockReason[1])

\* a blocked response that also carries an image in its first candidate
C1_Witness ==
    /\ Classified
    /\ BlockReasonGiven
    /\ CandidateCount > 0
    /\ HasInlinePart(1)
    /\ hrOutcome.thrown # None
    /\ IsBlocked(hrOutcome.thrown[1])

\* C2 as stated: an unblocked response with an inline image part in any of
\* its content segments yields Success with the data URL of the first such
\* segment in order.
C2_AnySegment ==
    (Classified /\ ~BlockReasonGiven /\ AnyInlinePart) =>
        LET k == CHOOSE c \in 1..CandidateCount :
                    HasInlinePart(c) /\ \A d \in 1..(c - 1) : ~HasInlinePart(d)
            ps == PartsOfCandidate(k)
            i == CHOOSE n \in 1..Len(ps) :
                    ps[n].inlineData # None /\ \A m \in 1..(n - 1) : ps[m].inlineData = None
        IN  hrOutcome = [returned |-> Some(<<"data", ":">> \o ps[i].inlineData[1].mimeType
                                             \o <<";", "base64", ",">> \o ps[i].inlineData[1].data),
                         thrown |-> None]

\* C2 (amended): an unblocked response whose FIRST candidate has an inline
\* image part yields Success with data:<mimeType>;base64,<data> of the first
\* such part of that candidate, also when the finish reason is not STOP.
C2_FirstCandidateImage ==
    (Classified /\ ~BlockReasonGiven /\ CandidateCount > 0 /\ HasInlinePart(1)) =>
        LET ps == PartsOfCandidate(1)
            i == CHOOSE n \in 1..Len(ps) :
                    ps[n].inlineData # None /\ \A m \in 1..(n - 1) : ps[m].inlineData = None
        IN  hrOutcome = [returned |-> Some(<<"data", ":">> \o ps[i].inlineData[1].mimeType
                                             \o <<";", "base64", ",">> \o ps[i].inlineData[1].data),
                         thrown |-> None]

\* two different images in the first candidate and an abnormal finish reason
C2_Witness ==
    /\ Classified
    /\ ~BlockReasonGiven
    /\ CandidateCount > 0
    /\ PartsOfCandidate(1) = <<InlinePart(PngData), InlinePart(JpegData)>>
    /\ FirstFinishReason = Some(<<"SAFETY">>)
    /\ hrOutcome.returned = Some(<<"data", ":", "image/png", ";", "base64", ",", "i", "V", "B", "O">>)

\* C3: an unblocked response without any inline image part and with a finish
\* reason that is present and not STOP is classified as StoppedEarly, and
\* the message contains the finish reason.
C3_StoppedEarly ==
    (/\ Classified
     /\ ~BlockReasonGiven
     /\ ~AnyInlinePart
     /\ FirstFinishReason # None
     /\ FirstFinishReason # Some(<<"STOP">>)) =>
        /\ hrOutcome.returned = None
        /\ hrOutcome.thrown # None
        /\ IsStoppedEarly(hrOutcome.thrown[1])
        /\ Contains(hrOutcome.thrown[1], FirstFinishReason[1])

\* MAX_TOKENS on the first candidate, STOP on the one after it
C3_Witness ==
    /\ Classified
    /\ ~BlockReasonGiven
    /\ ~AnyInlinePart
    /\ CandidateCount = 2
    /\ FirstFinishReason = Some(<<"MAX_TOKENS">>)
    /\ hrResponse[1].candidates[1][2].finishReason = Some(<<"STOP">>)
    /\ hrOutcome.thrown # None
    /\ IsStoppedEarly(hrOutcome.thrown[1])

NormalOrNoFinish == FirstFinishReason = None \/ FirstFinishReason = Some(<<"STOP">>)

FallbackCase == Classified /\ ~BlockReasonGiven /\ ~AnyInlinePart /\ NormalOrNoFinish

\* C4 as stated: in the fallback case the message EQUALS the free text when
\* that text is non-empty, and is the generic message otherwise (read with
\* latitude: the text with or without its surrounding white space, blank
\* text counted as empty, the generic message of any context).
C4_MessageIsText ==
    FallbackCase =>
        IF hrResponse[1].text # None /\ trim(hrResponse[1].text[1]) # <<>>
        THEN FailedWith(hrResponse[1].text[1]) \/ FailedWith(trim(hrResponse[1].text[1]))
        ELSE \E c \in Contexts : FailedWith(<<EmptyPrefix, c, ". ", GenericAdvice>>)

\* C4 (amended): in the fallback case the outcome is EmptyResult and the
\* message is "The AI model did not return an image for the <context>. "
\* followed by 'The model responded with text: "<text>"', <text> being the
\* free text with surrounding white space removed, when that is non-empty,
\* and followed by the fixed generic advice otherwise.
C4_EmptyResultMessage ==
    FallbackCase =>
        /\ hrOutcome.thrown # None
        /\ IsEmptyResult(hrOutcome.thrown[1])
        /\ IF hrResponse[1].text # None /\ trim(hrResponse[1].text[1]) # <<>>
           THEN FailedWith(<<EmptyPrefix, hrContext[1], ". ", TextLead, "\"">>
                             \o trim(hrResponse[1].text[1]) \o <<"\"">>)
           ELSE FailedWith(<<EmptyPrefix, hrContext[1], ". ", GenericAdvice>>)

\* free text wrapped in white space, finish reason STOP
C4_Witness ==
    /\ FallbackCase
    /\ FirstFinishReason = Some(<<"STOP">>)
    /\ hrResponse[1].text = Some(<<" ", "n", "o", "\n">>)
    /\ hrOutcome.thrown # None
    /\ Contains(hrOutcome.thrown[1], <<"\"", "n", "o", "\"">>)

\* C7: every response gets exactly one outcome: a returned data URL, or one
\* thrown failure of exactly one of the kinds Blocked, StoppedEarly and
\* EmptyResult; never both and never neither.
C7_ExactlyOneOutcome ==
    Classified =>
        /\ (hrOutcome.returned # None) # (hrOutcome.thrown # None)
        /\ hrOutcome.thrown # None =>
              LET msg == hrOutcome.thrown[1]
              IN  Cardinality({k \in {"Blocked", "StoppedEarly", "EmptyResult"} :
                                  \/ k = "Blocked" /\ IsBlocked(msg)
                                  \/ k = "StoppedEarly" /\ IsStoppedEarly(msg)
                                  \/ k = "EmptyResult" /\ IsEmptyResult(msg)}) = 1

\* nothing to go on: no feedback, no candidates, no text
C7_Witness ==
    /\ Classified
    /\ hrResponse[1] = [promptFeedback |-> None, candidates |-> None, text |-> None]
    /\ hrOutcome.returned = None
    /\ hrOutcome.thrown # None
    /\ IsEmptyResult(hrOutcome.thrown[1])

\* C16 as stated: in the fallback case a response that carries free text
\* has that text, unaltered, as a substring of the message, and the generic
\* advice is used only when there is no free text.
C16_TextVerbatim ==
    FallbackCase =>
        /\ hrOutcome.thrown # None
        /\ IF hrResponse[1].text # None /\ hrResponse[1].text[1] # <<>>
           THEN /\ Contains(hrOutcome.thrown[1], hrResponse[1].text[1])
                /\ ~Contains(hrOutcome.thrown[1], <<GenericAdvice>>)
           ELSE Contains(hrOutcome.thrown[1], <<GenericAdvice>>)

\* C16 (amended): in the fallback case, when the free text is non-empty
\* after its surrounding white space is removed, the message has that
\* trimmed text, in quotes, as a substring and not the generic advice; when
\* the text is absent or all white space the generic advice is used.
C16_TrimmedTextIncluded ==
    FallbackCase =>
        /\ hrOutcome.thrown # None
        /\ IF hrResponse[1].text # None /\ trim(hrResponse[1].text[1]) # <<>>
           THEN /\ Contains(hrOutcome.thrown[1],
                            <<"\"">> \o trim(hrResponse[1].text[1]) \o <<"\"">>)
                /\ ~Contains(hrOutcome.thrown[1], <<GenericAdvice>>)
           ELSE Contains(hrOutcome.thrown[1], <<GenericAdvice>>)

\* text of white space only, no candidates: the generic advice
C16_Witness ==
    /\ FallbackCase
    /\ hrResponse[1].text = Some(<<" ">>)
    /\ CandidateCount = 0
    /\ hrOutcome.thrown # None
    /\ Contains(hrOutcome.thrown[1], <<GenericAdvice>>)

\* ===================================================================
\* Two runs of handleApiResponse on one response (under SpecClassifyPair)
\* ===================================================================
OutcomeKind(o) ==
    IF o.returned # None THEN "Success"
    ELSE IF o.thrown = None THEN "Pending"
    ELSE IF IsBlocked(o.thrown[1]) THEN "Blocked"
    ELSE IF IsStoppedEarly(o.thrown[1]) THEN "StoppedEarly"
    ELSE IF IsEmptyResult(o.thrown[1]) THEN "EmptyResult"
    ELSE "Other"

\* two messages are the same but for the context label in them
SameButLabel(a, la, b, lb) ==
    /\ Len(a) = Len(b)
    /\ \A i \in 1..Len(a) : a[i] # b[i] => (a[i] = la /\ b[i] = lb)

\* C15: two runs of handleApiResponse on the same response, with the same
\* or with different context labels, end with the same kind of outcome and,
\* on success, the same data URL; with the same label they end the same in
\* every respect, and with different labels the failure messages differ in
\* the label only.
C15_SameOutcomeWhateverLabel ==
    prPc = "settled" =>
        /\ OutcomeKind(prOutcomeA) \in {"Success", "Blocked", "StoppedEarly", "EmptyResult"}
        /\ OutcomeKind(prOutcomeA) = OutcomeKind(prOutcomeB)
        /\ prOutcomeA.returned = prOutcomeB.returned
        /\ (prContextA = prContextB => prOutcomeA = prOutcomeB)
        /\ (prOutcomeA.thrown # None =>
               /\ prOutcomeB.thrown # None
               /\ SameButLabel(prOutcomeA.thrown[1], prContextA[1],
                               prOutcomeB.thrown[1], prContextB[1]))

\* different labels, a response that is blocked and carries an image too
C15_Witness ==
    /\ prPc = "settled"
    /\ prContextA = Some("filter")
    /\ prContextB = Some("mockup")
    /\ prResponse[1].promptFeedback # None
    /\ Truthy(prResponse[1].promptFeedback[1].blockReason)
    /\ prResponse[1].candidates # None
    /\ prResponse[1].candidates[1] # <<>>
    /\ LET c == prResponse[1].candidates[1][1]
       IN  /\ c.content # None
           /\ c.content[1].parts # None
           /\ \E i \in 1..Len(c.content[1].parts[1]) :
                  c.content[1].parts[1][i].inlineData # None
    /\ OutcomeKind(prOutcomeA) = "Blocked"
    /\ OutcomeKind(prOutcomeB) = "Blocked"

\* different labels, a run that stops early: the messages differ
C15_WitnessWording ==
    /\ prPc = "settled"
    /\ prContextA # prContextB
    /\ OutcomeKind(prOutcomeA) = "StoppedEarly"
    /\ prOutcomeA # prOutcomeB

\* ===================================================================
\* Properties of fileToPart (under SpecFileToPart)
\* ===================================================================
Loaded == fpPc = "settled" /\ fpDataUrl # None

\* C5 as stated (on assets that have content): for every asset, the part
\* made from its data URL has the asset's media type and a payload that
\* decodes to the asset's bytes.
C5_RoundTripEveryAsset ==
    (Loaded /\ fpFile[1].bytes # <<>>) =>
        /\ fpResult.returned # None
        /\ fpResult.returned[1].mimeType = fpFile[1].type
        /\ Base64Decode(fpResult.returned[1].data) = fpFile[1].bytes

PlainType(t) == t # <<>> /\ IndexOf(t, ";", 1) = 0 /\ IndexOf(t, ",", 1) = 0

\* C5 (amended): for an asset whose media type M is non-empty and has no ";"
\* and no ",", every part fileToPart returns has mimeType M and a payload
\* that decodes to the asset's bytes, and a part is returned whenever the
\* reader's data URL has a payload delimiter.
C5_RoundTripPlainType ==
    (Loaded /\ PlainType(fpFile[1].type)) =>
        /\ IndexOf(fpDataUrl[1], ",", 1) # 0 => fpResult.returned # None
        /\ fpResult.returned # None =>
              /\ fpResult.returned[1].mimeType = fpFile[1].type
              /\ Base64Decode(fpResult.returned[1].data) = fpFile[1].bytes

\* a two-byte asset (padded payload) of type image/png comes back whole
C5_Witness ==
    /\ Loaded
    /\ fpFile[1] = [type |-> <<"image/png">>, bytes |-> <<255, 77>>]
    /\ fpResult.returned = Some([mimeType |-> <<"image/png">>, data |-> <<"/", "0", "0", "=">>])

\* C9: a data URL with fewer than two ","-separated segments fails with
\* "Invalid data URL"; one whose first segment has no ":<type>;" with a
\* non-empty type fails with "Could not parse MIME type from data URL";
\* every other one gives a part; a returned part has a non-empty mimeType.
C9_EncodingErrors ==
    Loaded =>
        LET arr == split(fpDataUrl[1], ",")
            m == IF Len(arr) < 2 THEN None ELSE mimeMatch(arr[1])
        IN  /\ Len(arr) < 2 => fpResult = Thrown(InvalidDataUrl)
            /\ (Len(arr) >= 2 /\ (m = None \/ m[1] = <<>>)) => fpResult = Thrown(NoMimeType)
            /\ (Len(arr) >= 2 /\ m # None /\ m[1] # <<>>) => fpResult.returned # None
            /\ fpResult.returned # None => fpResult.returned[1].mimeType # <<>>
            /\ (fpResult.returned # None) # (fpResult.thrown # None)

\* an asset without a type read as "data:;base64,<payload>"
C9_Witness ==
    /\ Loaded
    /\ fpFile[1].type = <<>>
    /\ fpDataUrl[1] = <<"data", ":", ";", "base64", ",">> \o Base64Encode(fpFile[1].bytes)
    /\ fpFile[1].bytes # <<>>
    /\ fpResult = Thrown(NoMimeType)

\* ===================================================================
\* Properties of the generation operations (under Spec)
\* ===================================================================
LogosAnswered == opPc = "done" /\ opName = Some("generateLogos") /\ opResponse # None

\* C6: generateLogos fails with the generic no-images message, and returns
\* no data URL, whenever generatedImages is absent or empty.
C6_NoImages ==
    (LogosAnswered /\ (opResponse[1].generatedImages = None
                        \/ opResponse[1].generatedImages = Some(<<>>))) =>
        opOutcome = [returned |-> None, thrown |-> Some(NoImagesMessage)]

\* generatedImages present and empty
C6_Witness ==
    /\ LogosAnswered
    /\ opResponse[1].generatedImages = Some(<<>>)
    /\ opOutcome.thrown = Some(NoImagesMessage)

\* C8: when generateLogos returns, it returns one data URL
\* data:image/png;base64,<imageBytes> per generated image, in the order and
\* number of the response's generatedImages.
C8_OneUrlPerImage ==
    (LogosAnswered /\ opOutcome.returned # None) =>
        LET urls == opOutcome.returned[1]
            imgs == opResponse[1].generatedImages[1]
        IN  /\ Len(urls) = Len(imgs)
            /\ \A i \in 1..Len(imgs) :
                  /\ SubSeq(urls[i], 1, 6) = <<"data", ":", "image/png", ";", "base64", ",">>
                  /\ SubSeq(urls[i], 7, Len(urls[i])) = Interpolate(imgs[i].image[1].imageBytes)

\* two different images come back as two URLs in the same order
C8_Witness ==
    /\ LogosAnswered
    /\ opResponse[1].generatedImages =
          Some(<<[image |-> Some([imageBytes |-> Some(Payload2)])],
                 [image |-> Some([imageBytes |-> Some(Payload1)])]>>)
    /\ opOutcome.returned =
          Some(<<(<<"data", ":", "image/png", ";", "base64", ",">> \o Payload2),
                 (<<"data", ":", "image/png", ";", "base64", ",">> \o Payload1)>>)

OwnLabel ==
    [generateEditedImage |-> "edit", generateFilteredImage |-> "filter",
     generateAdjustedImage |-> "adjustment", generateAdImage |-> "ad",
     generateMockup |-> "mockup"]

\* C10 as stated: every finished call of every operation has invoked the
\* service exactly once and handed the response to handleApiResponse under
\* the operation's own label.
C10_OnceAndClassified ==
    opPc = "done" =>
        /\ serviceCalls = 1
        /\ opResponse # None =>
              /\ Len(classifierCalls) = 1
              /\ classifierCalls[1].response = opResponse[1]
              /\ opName[1] \in DOMAIN OwnLabel
              /\ classifierCalls[1].context = OwnLabel[opName[1]]

\* C10 (amended): a call invokes the service at most once, and exactly once
\* unless fileToPart failed (then not at all); the five operations that
\* attach an asset hand the response, when one arrives, to handleApiResponse
\* exactly once under their own label; generateLogos inspects its response
\* itself and never calls handleApiResponse.
C10_AtMostOnceAndLabelled ==
    /\ serviceCalls \in {0, 1}
    /\ Len(classifierCalls) <= 1
    /\ opPc = "awaiting" => serviceCalls = 1
    /\ opPc = "done" =>
          /\ serviceCalls = IF opName[1] # "generateLogos" /\ opPart = None THEN 0 ELSE 1
          /\ opName[1] = "generateLogos" => classifierCalls = <<>>
          /\ (opName[1] # "generateLogos" /\ opResponse # None) =>
                classifierCalls = <<[context |-> OwnLabel[opName[1]], response |-> opResponse[1]]>>
          /\ opResponse = None => classifierCalls = <<>>

\* generateMockup answered: one request, one classification labelled mockup
C10_Witness ==
    /\ opPc = "done"
    /\ opName = Some("generateMockup")
    /\ opResponse # None
    /\ serviceCalls = 1
    /\ Len(classifierCalls) = 1
    /\ classifierCalls[1].context = "mockup"

\* the failures fileToPart can end with on the asset of the call
EncodingFailures ==
    { Thrown(ReaderError) }
    \cup { fileToPart(u) : u \in {v \in readAsDataURL(opAsset[1]) : fileToPart(v).thrown # None} }

\* C12: a failure of fileToPart and a rejection of the service call reach
\* the caller of the operation as they were raised, and no call of an
\* operation, whatever it fails with, sends a second request to the service.
C12_FailuresPropagateOnce ==
    /\ serviceCalls <= 1
    /\ (opPc = "done" /\ opName[1] \in AssetOperations /\ opPart = None) =>
          /\ opOutcome \in EncodingFailures
          /\ serviceCalls = 0
    /\ (opPc = "done" /\ (opPart # None \/ opName[1] = "generateLogos") /\ opResponse = None) =>
          /\ opOutcome = [returned |-> None, thrown |-> Some(TransportError)]
          /\ serviceCalls = 1
    /\ (opPc = "done" /\ opResponse # None /\ opOutcome.thrown # None) => serviceCalls = 1

\* generateMockup whose request was rejected by the service
C12_Witness ==
    /\ opPc = "done"
    /\ opName = Some("generateMockup")
    /\ opPart # None
    /\ opResponse = None
    /\ opOutcome.thrown = Some(TransportError)
    /\ serviceCalls = 1

\* ===================================================================
\* Properties of the pages (under SpecUI)
\* ===================================================================
\* the output pane shows the generated mockup (lines 137-147)
MockupDisplayed == ~mkIsLoading /\ mkError = None /\ mkGeneratedMockup # None

\* C18: a mockup that is displayed was produced from the asset that is
\* selected at that moment.
C18_MockupOfSelectedAsset ==
    (page = "mockup" /\ MockupDisplayed /\ mkAssetFile # None) => mkMockupOf = mkAssetFile

\* C19: error and generatedMockup are never both non-null, and while
\* isLoading is true both are null.
C19_ErrorResultSpinnerExclusive ==
    /\ ~(mkError # None /\ mkGeneratedMockup # None)
    /\ mkIsLoading => (mkError = None /\ mkGeneratedMockup = None)

\* a request is in flight that was started while an error was shown or
\* after an earlier result: nothing of either is left
C19_Witness ==
    /\ page = "mockup"
    /\ mkIsLoading
    /\ Len(mkInFlight) = 1
    /\ mkAssetFile = None
    /\ mkError = None
    /\ mkGeneratedMockup = None

\* a result is shown, no error with it
C19_WitnessResult ==
    /\ page = "mockup"
    /\ ~mkIsLoading
    /\ mkSettled # None
    /\ mkSettled[1].returned # None
    /\ mkGeneratedMockup = mkSettled[1].returned
    /\ mkError = None

\* C17: the only preview URL of MockupGenerator and of GenerateAdPanel that
\* is not revoked is the one of the asset the mounted component holds: at
\* most one per component, and none once the asset is removed or the
\* component is torn down.
C17_OnePreviewUrlAlive ==
    /\ Len(mkObjectUrls) <= 1
    /\ Len(adObjectUrls) <= 1
    /\ mkObjectUrls = (IF page = "mockup" /\ mkAssetFile # None
                       THEN <<objectUrl(mkAssetFile[1])>> ELSE <<>>)
    /\ adObjectUrls = (IF page = "editor" /\ adMounted /\ adLogoForAd # None
                       THEN <<objectUrl(adLogoForAd[1])>> ELSE <<>>)

\* the asset was replaced while a request for the earlier one is in flight:
\* one URL is live, the one of the new asset
C17_Witness ==
    /\ page = "mockup"
    /\ Len(mkInFlight) = 1
    /\ mkAssetFile # None
    /\ mkInFlight[1].asset # mkAssetFile[1]
    /\ mkObjectUrls = <<objectUrl(mkAssetFile[1])>>

\* the panel is not rendered while the editor still holds a logo: no URL
C17_WitnessPanel ==
    /\ page = "editor"
    /\ ~adMounted
    /\ adLogoForAd # None
    /\ adObjectUrls = <<>>

\* C11: neither MockupGenerator nor LogoGenerator has more than one request
\* in flight, and a step that starts a request is taken only when no earlier
\* request of that component is unresolved.
C11_OneRequestInFlight ==
    /\ [](Len(mkInFlight) <= 1 /\ Len(lgInFlight) <= 1)
    /\ [][/\ Len(mkInFlight') > Len(mkInFlight) => mkInFlight = <<>>
          /\ Len(lgInFlight') > Len(lgInFlight) => lgInFlight = <<>>]_vars

\* a request is in flight while an asset and a prompt are there to send again
C11_Witness ==
    /\ page = "mockup"
    /\ Len(mkInFlight) = 1
    /\ mkAssetFile # None
    /\ trim(mkMockupPrompt) # <<>>

\* the thrown value is an Error with a message
CarriesMessage(o) == o.thrown # None /\ o.thrown[1] # ReaderError

\* C13: when a generation fails with an error that carries a message, that
\* message is what the page stores, and the failure starts no request; a
\* stored error can be dismissed, which in the wizard leads back to a form
\* step; with no request in flight and the inputs present the generate
\* button works; and a request is started by a click on the generate button
\* only.
C13_FailureShownDismissedRetried ==
    /\ [][/\ (mkSettled' # mkSettled /\ mkSettled' # None /\ CarriesMessage(mkSettled'[1]))
               => (mkError' = mkSettled'[1].thrown /\ ~mkIsLoading' /\ mkInFlight' = <<>>)
          /\ (lgSettled' # lgSettled /\ lgSettled' # None /\ CarriesMessage(lgSettled'[1]))
               => (lgError' = lgSettled'[1].thrown /\ ~lgIsLoading' /\ lgInFlight' = <<>>)
          /\ Len(mkInFlight') > Len(mkInFlight) => MockupGenerate
          /\ Len(lgInFlight') > Len(lgInFlight) => LogoGenerate]_vars
    /\ [][(page' = page /\ lgError # None /\ lgError' = None)
            => (~lgIsLoading' /\ lgStep' \in 1..5 /\ lgLogoData'.name # <<>>)]_vars
    /\ []((page = "mockup" /\ mkError # None) => ENABLED MockupDismissError)
    /\ []((page = "logo" /\ lgError # None) => ENABLED LogoTryAgain)
    /\ []((page = "mockup" /\ ~mkIsLoading /\ mkAssetFile # None /\ trim(mkMockupPrompt) # <<>>)
            => ENABLED MockupGenerate)
    /\ []((page = "logo" /\ ~lgIsLoading /\ lgError = None /\ lgStep = 5
             /\ lgLogoData.iconography # <<>>)
            => ENABLED LogoGenerate)

\* a blocked request: the message of the block is the error on display
C13_Witness ==
    /\ page = "mockup"
    /\ mkSettled # None
    /\ mkSettled[1].thrown # None
    /\ IsBlocked(mkSettled[1].thrown[1])
    /\ mkError = mkSettled[1].thrown
    /\ ~mkIsLoading
    /\ mkInFlight = <<>>

\* C14: while its component is shown the loading flag is true exactly while
\* a request of the component is in flight; a request leaves the flight only
\* by settling, with success or with an error, and the flag is false then.
C14_LoadingUntilSettled ==
    /\ [](mkIsLoading <=> mkInFlight # <<>>)
    /\ [](lgIsLoading <=> lgInFlight # <<>>)
    /\ [][/\ (page' = page /\ Len(mkInFlight') < Len(mkInFlight))
               => (mkSettled' # None /\ ~mkIsLoading')
          /\ (page' = page /\ Len(lgInFlight') < Len(lgInFlight))
               => (lgSettled' # None /\ ~lgIsLoading')
          /\ (page' # page) => orphaned' = orphaned + Len(mkInFlight) + Len(lgInFlight)]_vars

\* a request has failed: the flag is false
C14_Witness ==
    /\ page = "logo"
    /\ lgSettled # None
    /\ lgSettled[1].thrown # None
    /\ ~lgIsLoading
    /\ lgInFlight = <<>>

\* C20: step stays within 1..6; the results view (step > 5) is entered only
\* by the success of a generation and holds a non-empty generatedLogos; a
\* request is issued only at step 5 with a brand name and an iconography.
C20_WizardSteps ==
    /\ [](lgStep \in 1..6)
    /\ [](lgStep > 5 => lgGeneratedLogos # <<>>)
    /\ [](\A i \in 1..Len(lgInFlight) :
             /\ lgInFlight[i].step = 5
             /\ lgStep = 5
             /\ lgInFlight[i].logoData.name # <<>>
             /\ lgInFlight[i].logoData.iconography # <<>>)
    /\ [][(lgStep' > 5 /\ ~(lgStep > 5))
            => (/\ lgSettled' # None
                /\ lgSettled'[1].returned # None
                /\ lgGeneratedLogos' = lgSettled'[1].returned[1])]_vars

\* the results view after a generation that succeeded
C20_Witness ==
    /\ page = "logo"
    /\ lgStep = 6
    /\ lgSettled # None
    /\ lgSettled[1].returned # None
    /\ lgGeneratedLogos # <<>>

\* C21: the step that dismisses the error of a failed generation clears
\* the error, changes no field of logoData and leaves generatedLogos as it
\* was, and lands on a form step in 1..5 with the name and the iconography
\* still there; on such a form Next works below step 5 and Generate Logos
\* works at step 5, so a new generation is reached by Next alone.
C21_TryAgainKeepsData ==
    /\ [][(page' = page /\ lgError # None /\ lgError' = None)
            => (/\ lgLogoData' = lgLogoData
                /\ lgGeneratedLogos' = lgGeneratedLogos
                /\ ~lgIsLoading'
                /\ lgStep' \in 1..5
                /\ lgLogoData'.name # <<>>
                /\ lgLogoData'.iconography # <<>>)]_vars
    /\ []((page = "logo" /\ ~lgIsLoading /\ lgError = None /\ lgStep < 5 /\ lgLogoData.name # <<>>)
            => ENABLED handleNext)
    /\ []((page = "logo" /\ ~lgIsLoading /\ lgError = None /\ lgStep = 5
             /\ lgLogoData.iconography # <<>>)
            => ENABLED LogoGenerate)

\* the last generation failed and its error has been dismissed: the form of
\* step 4 is shown with the data the failed request was made from
C21_Witness ==
    /\ page = "logo"
    /\ lgSettled # None
    /\ lgSettled[1].thrown # None
    /\ lgError = None
    /\ ~lgIsLoading
    /\ lgStep = 4
    /\ lgLogoData.name # <<>>
    /\ lgLogoData.iconography # <<>>
    /\ lgGeneratedLogos = <<>>

\* the entries of a sequence are pairwise different
NoDuplicates(seq) == \A i, j \in 1..Len(seq) : seq[i] = seq[j] => i = j

\* C22: logoData.styles holds at most 3 entries, without duplicates, all
\* among the six offered styles; a step of the style form that changes it
\* either removes exactly one selected style, the others keeping their
\* order, or appends exactly one unselected style to fewer than 3, and
\* changes no other field of logoData.
C22_StyleToggles ==
    /\ [](/\ Len(lgLogoData.styles) <= 3
          /\ NoDuplicates(lgLogoData.styles)
          /\ \A i \in 1..Len(lgLogoData.styles) : lgLogoData.styles[i] \in LogoStyles)
    /\ [][(page' = page /\ lgStep = 3 /\ lgLogoData'.styles # lgLogoData.styles)
            => \E style \in LogoStyles :
                  LET old == lgLogoData.styles
                      selected == \E i \in 1..Len(old) : old[i] = style
                  IN  /\ lgLogoData' = [lgLogoData EXCEPT !.styles = lgLogoData'.styles]
                      /\ IF selected
                         THEN /\ Len(lgLogoData'.styles) = Len(old) - 1
                              /\ lgLogoData'.styles = SelectSeq(old, LAMBDA x : x # style)
                         ELSE /\ Len(old) < 3
                              /\ lgLogoData'.styles = old \o <<style>>]_vars

\* three styles are selected: the other three buttons are disabled
C22_Witness ==
    /\ page = "logo"
    /\ lgStep = 3
    /\ ~lgIsLoading
    /\ lgError = None
    /\ Len(lgLogoData.styles) = 3

\* an upper-case '#' code of 3 or 6 hexadecimal digits
IsUpperHexCode(str) ==
    /\ Len(str) \in {4, 7}
    /\ str[1] = "#"
    /\ \A i \in 2..Len(str) : str[i] \in HexDigits

\* the colour typed is listed already, whatever the case of its letters
PresentAnyCase(colors, str) ==
    \E i \in 1..Len(colors) : toUpperCase(colors[i]) = toUpperCase(str)

\* C23: brandColors has no duplicates and only upper-case '#' codes of 3 or
\* 6 hexadecimal digits; it grows only by the upper-cased input, valid and
\* not yet listed, at its end, the input going back to '#'; an add of an
\* invalid or listed colour changes neither the list nor the input; and the
\* list shrinks only by exactly one colour, the others keeping their order.
C23_BrandColors ==
    /\ [](/\ NoDuplicates(adBrandColors)
          /\ \A i \in 1..Len(adBrandColors) : IsUpperHexCode(adBrandColors[i]))
    /\ [][/\ Len(adBrandColors') > Len(adBrandColors)
               => /\ IsUpperHexCode(toUpperCase(adNewColor))
                  /\ ~PresentAnyCase(adBrandColors, adNewColor)
                  /\ adBrandColors' = adBrandColors \o <<toUpperCase(adNewColor)>>
                  /\ adNewColor' = <<"#">>
          /\ (handleAddColor /\ (~IsUpperHexCode(toUpperCase(adNewColor))
                                  \/ PresentAnyCase(adBrandColors, adNewColor)))
               => UNCHANGED <<adBrandColors, adNewColor>>
          /\ (page' = page /\ Len(adBrandColors') < Len(adBrandColors))
               => /\ \E i \in 1..Len(adBrandColors) :
                        adBrandColors' = Without(adBrandColors, i)
                  /\ adNewColor' = adNewColor]_vars

\* two colours have been added, one typed in lower case, and the input is
\* back to '#'
C23_Witness ==
    /\ page = "editor"
    /\ adMounted
    /\ Len(adBrandColors) = 2
    /\ adBrandColors[1] = <<"#", "1", "F", "2", "E", "3", "D">>
    /\ adNewColor = <<"#">>

====
